---- MODULE Spec2Model ----
(***************************************************************************)
(* Model of the QuickNode caching proxy of simple_oracle                   *)
(* (src/src/qn_proxy.rs) and of the L2 HTTP cache helpers it calls          *)
(* (src/src/db.rs).                                                         *)
(*                                                                         *)
(* One task is one execution of get_cached (a client request), of the      *)
(* future spawned by spawn_refresh (a background refresh), or the loop      *)
(* spawned by spawn_hotset_refresher.  Every action is one stretch of code  *)
(* between two points where other tasks can observe or change the shared    *)
(* state (the DashMaps, the inflight mutex, the semaphore, the budget       *)
(* mutex, the SQLite table, the upstream server).                           *)
(*                                                                         *)
(* Time is counted in ticks of 20 seconds: the refresher period             *)
(* (qn_proxy.rs:281) is 1 tick and the budget window (qn_proxy.rs:91,254)  *)
(* is 3 ticks.  Instant::now() and epoch_seconds() read the same clock.     *)
(***************************************************************************)
EXTENDS Integers, Sequences, FiniteSets, TLC

\* ------------------------------------------------------------ bounds
NumClients == 3      \* callers of get_cached (a batch of three; two elsewhere)
NumKeys == 2         \* distinct fingerprints
MaxBg == 2           \* background refresh tasks alive at once
MaxTime == 3         \* the clock stops advancing here
MaxHotTicks == 1     \* ticks of the hot-set refresher
MaxGets == 51        \* get_cached calls of a client that calls again and again
MaxParams == 2       \* parameters of a request given to make_cache_key
WriteLimit == 1      \* WRITE_RATE_LIMIT_PER_MINUTE
MaxWrites == 2       \* admin writes that succeed in a run
WriteTicks == 4      \* the clock of a run of admin writes stops here

\* ------------------------------------------------------------ configuration
\* from_env reads these from the environment; the values are a configuration
\* in ticks.  pop_hot and pop_warm are the thresholds of the runs of a few
\* calls; default_pop_hot and default_pop_warm are those choose_ttl falls back to.
ttl_hot == 1
ttl_warm == 2
ttl_cold == 3
max_stale == 1
pop_hot == 3
pop_warm == 2
hotset_size == 2
budget_window == 3
refresh_period == 1
popularity_cap == 1000000
default_pop_hot == 50
default_pop_warm == 10

Max(a, b) == IF a >= b THEN a ELSE b
Min(a, b) == IF a <= b THEN a ELSE b

Hot == 0
Clients == 1..NumClients
Bgs == (NumClients + 1)..(NumClients + MaxBg)
Tasks == {Hot} \cup Clients \cup Bgs
Keys == 1..NumKeys

None == << >>
Some(x) == << x >>
IsSome(o) == o # << >>
Get(o) == o[1]

\* ------------------------------------------------------------ results and errors
NoError == [kind |-> "none", msg |-> ""]
TooManyRequests == [kind |-> "TooManyRequests", msg |-> "too many requests"]
BadRequest == [kind |-> "BadRequest", msg |-> "bad request: QNODE_BASE_URL not configured"]
UpstreamError == [kind |-> "Anyhow", msg |-> "upstream request failed"]
UrlParseError == [kind |-> "Anyhow", msg |-> "relative URL without a base"]
\* AppError::Anyhow from DbState::conn (db.rs line 29)
DbError == [kind |-> "Anyhow", msg |-> "timed out waiting for connection"]
Unauthorized == [kind |-> "Unauthorized", msg |-> "unauthorized"]
Forbidden == [kind |-> "Forbidden", msg |-> "forbidden"]
NotFound == [kind |-> "NotFound", msg |-> "not found"]
\* AppError::Anyhow(anyhow!(msg)): what finish_flight sends to the waiters after the first
AnyhowOf(err) == [kind |-> "Anyhow", msg |-> err.msg]

\* AppError::status
AppErrorStatus(err) ==
    CASE err.kind = "TooManyRequests" -> 429
      [] err.kind = "NotFound" -> 404
      [] err.kind = "Unauthorized" -> 401
      [] err.kind = "Forbidden" -> 403
      [] err.kind = "BadRequest" -> 400
      [] err.kind = "Anyhow" -> 500
      [] OTHER -> 500

Ok(status, body) == [ok |-> TRUE, status |-> status, body |-> body, err |-> NoError]
Err(e) == [ok |-> FALSE, status |-> 0, body |-> 0, err |-> e]
NoResult == [ok |-> FALSE, status |-> 0, body |-> 0, err |-> NoError]

\* the status a route answers with (routes.rs: Ok((s, b)) => (s, b), Err(e) => e.status())
HttpStatus(res) == IF res.ok THEN res.status ELSE AppErrorStatus(res.err)

\* ------------------------------------------------------------ pure helpers
\* The markers class_base_ttl looks for.  Fingerprint k of the model stands for
\* a request whose path and whose query string contain exactly these markers:
\* keys 1 and 2 are two requests on the path addon/912/networks/solana/dexes,
\* the second with a parameter value that holds "/tokens/" (sort=/tokens/).
PathMarkers(k) ==
    CASE k % 4 = 1 -> {"/dexes"}
      [] k % 4 = 2 -> {"/dexes"}
      [] k % 4 = 3 -> {}
      [] OTHER -> {"/search"}
QueryMarkers(k) == IF k % 4 = 2 THEN {"/tokens/"} ELSE {}
\* the key is method|path?query (make_cache_key): what it contains
KeyMarkers(k) == PathMarkers(k) \cup QueryMarkers(k)

Contains(k, marker) == marker \in KeyMarkers(k)

class_base_ttl(k) ==
    IF Contains(k, "/tokens/") THEN ttl_warm
    ELSE IF Contains(k, "/pools/") THEN ttl_warm
    ELSE IF Contains(k, "/dexes") THEN ttl_cold
    ELSE IF Contains(k, "/search") THEN ttl_cold
    ELSE ttl_warm

choose_ttl_with(pop, k, hot_threshold, warm_threshold) ==
    IF pop[k] >= hot_threshold THEN ttl_hot
    ELSE IF pop[k] >= warm_threshold THEN ttl_warm
    ELSE class_base_ttl(k)

\* p * 0.95 + 1.0 in whole numbers, capped
bump_popularity_decaying(pop, k) ==
    [pop EXCEPT ![k] = Min((pop[k] * 95) \div 100 + 1, popularity_cap)]
bump_popularity(pop, k) == [pop EXCEPT ![k] = Min(pop[k] + 1, popularity_cap)]

\* Instant::duration_since saturates at zero
duration_since(later, earlier) == Max(later - earlier, 0)

\* L1 lookup of get_cached: the entry when it is present and younger than ttl
l1_fresh_inclusive(c, k, t, ttl) ==
    IsSome(c[k]) /\ duration_since(t, Get(c[k]).stored_at) <= ttl
l1_fresh(c, k, t, ttl) ==
    IsSome(c[k]) /\ duration_since(t, Get(c[k]).stored_at) < ttl

\* try_consume_budget: the refill, then the decrement; [ok, b] is the answer and
\* the budget left behind
try_consume_budget_unchecked(b, t, n) ==
    LET b1 == IF t >= b.reset_at
              THEN [b EXCEPT !.remaining = b.capacity_per_minute,
                             !.reset_at = t + budget_window]
              ELSE b
    IN [ok |-> TRUE, b |-> [b1 EXCEPT !.remaining = Max(b1.remaining - n, 0)]]
try_consume_budget_off_by_one(b, t, n) ==
    LET b1 == IF t >= b.reset_at
              THEN [b EXCEPT !.remaining = b.capacity_per_minute,
                             !.reset_at = t + budget_window]
              ELSE b
    IN IF b1.remaining <= n
       THEN [ok |-> FALSE, b |-> b1]
       ELSE [ok |-> TRUE, b |-> [b1 EXCEPT !.remaining = b1.remaining - n]]
try_consume_budget_check_first(b, t, n) ==
    IF b.remaining < n
    THEN [ok |-> FALSE, b |-> b]
    ELSE LET b1 == IF t >= b.reset_at
                   THEN [b EXCEPT !.remaining = b.capacity_per_minute,
                                  !.reset_at = t + budget_window]
                   ELSE b
         IN [ok |-> TRUE, b |-> [b1 EXCEPT !.remaining = b1.remaining - n]]
try_consume_budget(b, t, n) ==
    LET b1 == IF t >= b.reset_at
              THEN [b EXCEPT !.remaining = b.capacity_per_minute,
                             !.reset_at = t + budget_window]
              ELSE b
    IN IF b1.remaining < n
       THEN [ok |-> FALSE, b |-> b1]
       ELSE [ok |-> TRUE, b |-> [b1 EXCEPT !.remaining = b1.remaining - n]]

\* popularity = popularity * 0.95 + 1.0, in thousandths
l2_bump(p) == (p * 95) \div 100 + 1000

\* http_cache_get: the row, and the table with the row's popularity bumped
http_cache_get_table(tbl, k) ==
    IF IsSome(tbl[k])
    THEN [tbl EXCEPT ![k] = Some([Get(tbl[k]) EXCEPT !.popularity = l2_bump(@)])]
    ELSE tbl

\* http_cache_put: insert with popularity 1.0, or overwrite status, body, expiry
http_cache_put(tbl, k, status, body, ttl, now_epoch) ==
    IF IsSome(tbl[k])
    THEN [tbl EXCEPT ![k] = Some([Get(tbl[k]) EXCEPT !.status = status, !.body = body,
                                                      !.expires_at = now_epoch + ttl])]
    ELSE [tbl EXCEPT ![k] = Some([status |-> status, body |-> body,
                                  expires_at |-> now_epoch + ttl, popularity |-> 1000])]

\* http_cache_cleanup_expired: DELETE ... WHERE expires_at < now
http_cache_cleanup_expired(tbl, now_epoch) ==
    [k \in Keys |-> IF IsSome(tbl[k]) /\ Get(tbl[k]).expires_at < now_epoch
                    THEN None ELSE tbl[k]]

\* http_cache_list_hot_keys: the sequences ORDER BY popularity DESC LIMIT n can
\* return (rows of equal popularity come in either order)
RowKeys(tbl) == {k \in Keys : IsSome(tbl[k])}
IsHotOrder(tbl, s) ==
    /\ \A i, j \in 1..Len(s) : i < j =>
          /\ s[i] # s[j]
          /\ Get(tbl[s[i]]).popularity >= Get(tbl[s[j]]).popularity
    /\ \A k \in RowKeys(tbl) : (\A i \in 1..Len(s) : s[i] # k) =>
          \A i \in 1..Len(s) : Get(tbl[s[i]]).popularity >= Get(tbl[k]).popularity
http_cache_list_hot_keys(tbl, n) ==
    LET len == Min(n, Cardinality(RowKeys(tbl)))
    IN {s \in [1..len -> RowKeys(tbl)] : IsHotOrder(tbl, s)}

\* Status::from_code: Some for the registered codes, else the caller's default
KnownCodes == {200, 404, 429, 500}
status_from_code(code, default) == IF code \in KnownCodes THEN code ELSE default
\* the raw status codes the upstream server answers with (299 is not registered)
UpstreamCodes == {200, 299}

\* ------------------------------------------------------------ state
VARIABLES
    now,          \* the clock, in ticks
    cfg,          \* the run: what from_env read, whether spawn_hotset_refresher was
                  \* called, the table found on disk, the calls that arrive
    cache,        \* L1: key -> Option [status, body, stored_at]
    popularity,   \* in-memory popularity: key -> score
    l2,           \* http_cache table: key -> Option [status, body, expires_at, popularity]
    inflight,     \* key -> Option (sequence of waiting tasks)
    permits,      \* permits left in the semaphore
    budget,       \* BudgetState
    upstream,     \* the upstream server: the number of responses it has given
    pc,           \* task -> where it is
    tkey,         \* task -> the key of its call
    tnow,         \* task -> `now` of get_cached (line 97), while it is needed
    tres,         \* task -> the result it carries or returned
    twaiters,     \* task -> the waiters finish_flight took out of the map
    hotKeys,      \* the refresher's remaining keys of this tick
    nextTick,     \* when the refresher's interval fires next
    \* history, read by the properties only
    sent,         \* key -> number of upstream requests issued
    recent,       \* requests issued in this tick and in the ticks before it
    windowSent,   \* requests issued since the last refill of the budget
    nflights,     \* flights started so far
    entryFlight,  \* key -> the flight of the present inflight entry (0: none)
    flightOf,     \* task -> the flight it leads or joined (0: none)
    hist,         \* client -> [ttl, end, caused, after, follower, pop]
    origin,       \* background task -> the client whose get spawned it
    gets,         \* key -> number of get_cached calls made on it
    hotLog,       \* the refresher's present tick: the keys listed, the keys it
                  \* sent upstream for, whether a try_consume_budget of it was denied
    \* the fingerprint functions
    req,          \* a request: [method, path, params], strings as sequences of bytes
    fp,           \* Option: make_cache_key("GET", path, params)
    parsed,       \* Option: parse_cache_key of the fingerprint
    \* the aggregate endpoint
    agg,          \* Option: the response of qn_tokens_aggregate, [status, out]
    \* the administrative routes
    db,           \* the tables prices, symbols, config and audit
    events,       \* what the Broadcaster published
    limits,       \* RateLimiter.limits: subject -> Option [count, since]
    reply         \* Option: the last admin write, [route, header, status]

proxyVars == << cache, popularity, l2, inflight, permits, budget, upstream >>
taskVars == << pc, tkey, tnow, tres, twaiters, hotKeys, nextTick >>
histVars == << sent, recent, windowSent, nflights, entryFlight, flightOf, hist, origin >>
logVars == << gets, hotLog >>
keyVars == << req, fp, parsed >>
aggVars == << agg >>
adminVars == << db, events, limits, reply >>
vars == << now, cfg, proxyVars, taskVars, histVars, logVars, keyVars, aggVars, adminVars >>

\* choose_ttl, with the thresholds the run's environment gives
choose_ttl(pop, k) == choose_ttl_with(pop, k, cfg.pop_hot, cfg.pop_warm)

\* ttl: the TTL get_cached selected; end: when the call returned (-1: not yet);
\* caused: upstream requests issued by the call or by the refresh it spawned;
\* after: the earlier calls on the same key that had returned, less than a TTL
\* ago (theirs and this call's), when this call started; follower: the call
\* joined another task's flight; pop: the popularity the TTL was selected from
NoHist == [ttl |-> 0, end |-> -1, caused |-> 0, after |-> {}, follower |-> FALSE, pop |-> 0]

\* a row an earlier run of the process left in the table
PersistedRow(expires_at) ==
    Some([status |-> 200, body |-> 0, expires_at |-> expires_at, popularity |-> 1000])

\* the refresher has listed no keys yet
NoTick == [list |-> << >>, sent |-> << >>, denied |-> FALSE]

\* the subjects of the tokens; a request without a token is "public"
Subjects == {"ops"}
LimiterKeys == Subjects \cup {"public"}
Mints == {"So11"}
Symbols == {"SOL"}

\* DbState::migrate: the tables are empty, the config row is seeded
migrate ==
    [prices |-> [m \in Mints |-> None],
     symbols |-> [y \in Symbols |-> None],
     config |-> [fee_bps_default |-> 100],
     audit |-> << >>]

InitWith(configs) ==
    /\ now = 0
    /\ cfg \in configs
    /\ cache = [k \in Keys |-> None]
    /\ popularity = [k \in Keys |-> 0]
    /\ l2 = cfg.table
    /\ inflight = [k \in Keys |-> None]
    /\ permits = cfg.concurrency
    /\ budget = [capacity_per_minute |-> cfg.budget_per_min,
                 remaining |-> cfg.budget_per_min,
                 reset_at |-> budget_window]
    /\ upstream = 0
    /\ pc = [t \in Tasks |-> IF t = Hot THEN "sleep" ELSE "idle"]
    /\ tkey = [t \in Tasks |-> 1]
    /\ tnow = [t \in Tasks |-> 0]
    /\ tres = [t \in Tasks |-> NoResult]
    /\ twaiters = [t \in Tasks |-> << >>]
    /\ hotKeys = << >>
    /\ nextTick = 0
    /\ sent = [k \in Keys |-> 0]
    /\ recent = [i \in 1..budget_window |-> 0]
    /\ windowSent = 0
    /\ nflights = 0
    /\ entryFlight = [k \in Keys |-> 0]
    /\ flightOf = [t \in Tasks |-> 0]
    /\ hist = [c \in Clients |-> NoHist]
    /\ origin = [b \in Bgs |-> 0]
    /\ gets = [k \in Keys |-> 0]
    /\ hotLog = NoTick
    /\ fp = None
    /\ parsed = None
    /\ agg = None
    /\ db = migrate
    /\ events = << >>
    /\ limits = [s \in LimiterKeys |-> None]
    /\ reply = None

\* ------------------------------------------------------------ returning
AfterReturn(t) == IF t \in Clients THEN "done" ELSE IF t \in Bgs THEN "idle" ELSE "hotloop"

\* the history of the clients among `who` returning now
Ended(h, who) ==
    [c \in Clients |-> IF c \in who THEN [h[c] EXCEPT !.end = now] ELSE h[c]]

\* the client a task works for: itself, or the get that spawned the refresh
ClientOf(t) == IF t \in Clients THEN t ELSE IF t \in Bgs THEN origin[t] ELSE 0

\* the history of one more upstream request issued by task t
Caused(h, t) ==
    [c \in Clients |-> IF c = ClientOf(t) THEN [h[c] EXCEPT !.caused = @ + 1] ELSE h[c]]

\* ------------------------------------------------------------ get_cached
\* get_cached up to the L1 lookup (lines 96-104): the key, `now`, the bump, the TTL
\* and the L1 hit.  Nothing here is awaited.
GetCached(t, k) ==
    /\ t \in Clients
    /\ pc[t] = "idle"
    /\ LET pop1 == bump_popularity(popularity, k)
           ttl == choose_ttl(pop1, k)
           hit == l1_fresh(cache, k, now, ttl)
           after == {c \in Clients : /\ pc[c] = "done" /\ tkey[c] = k
                                      /\ now - hist[c].end < Min(ttl, hist[c].ttl)}
           h1 == [hist EXCEPT ![t] = [@ EXCEPT !.ttl = ttl, !.after = after,
                                               !.pop = pop1[k]]]
       IN /\ popularity' = pop1
          /\ gets' = [gets EXCEPT ![k] = @ + 1]
          /\ tkey' = [tkey EXCEPT ![t] = k]
          /\ IF hit
             THEN /\ pc' = [pc EXCEPT ![t] = "done"]
                  /\ tres' = [tres EXCEPT ![t] = Ok(Get(cache[k]).status, Get(cache[k]).body)]
                  /\ hist' = Ended(h1, {t})
                  /\ tnow' = tnow
             ELSE /\ pc' = [pc EXCEPT ![t] = IF cfg.enable_l2 THEN "l2" ELSE "join"]
                  /\ tnow' = [tnow EXCEPT ![t] = IF cfg.enable_l2 THEN now ELSE 0]
                  /\ tres' = tres
                  /\ hist' = h1
    /\ UNCHANGED << adminVars, aggVars, keyVars, hotLog, now, cfg, cache, l2, inflight, permits, budget, upstream, twaiters, hotKeys,
                    nextTick, sent, recent, windowSent, nflights, entryFlight, flightOf, origin >>

\* the background task spawn_refresh starts: the idle one of lowest number
FreeBg == {b \in Bgs : pc[b] = "idle"}
NextBg == CHOOSE b \in FreeBg : \A c \in FreeBg : b <= c

\* line 108: the row has not expired
l2_fresh_strict(row, now_epoch) == row.expires_at - now_epoch > 0
l2_fresh_or_expired(row, now_epoch) == TRUE
l2_fresh(row, now_epoch) == row.expires_at - now_epoch >= 0
\* line 113: the row expired no longer ago than max_stale
l2_within_grace_strict(row, now_epoch) == now_epoch - row.expires_at < max_stale
l2_within_grace(row, now_epoch) == now_epoch - row.expires_at <= max_stale

\* DbState::http_cache_get: Err when the database fails, else Ok(row or None)
http_cache_get(tbl, k, fails) ==
    IF fails THEN [ok |-> FALSE, row |-> None] ELSE [ok |-> TRUE, row |-> tbl[k]]
\* the table http_cache_get and http_cache_put leave: as it was when they fail
table_after(tbl, after, fails) == IF fails THEN tbl ELSE after

\* what becomes of the Result of http_cache_get: with `?` an Err is returned
\* to the caller; with `if let Ok(Some(..))` (lines 107, 201) an Err is no row
question_mark(r) == IF ~r.ok THEN "error" ELSE IF IsSome(r.row) THEN "row" ELSE "none"
if_let_ok_some(r) == IF r.ok /\ IsSome(r.row) THEN "row" ELSE "none"

\* get_cached's L2 lookup (lines 105-119): http_cache_get, then promotion of a
\* fresh row, or the stale row and a spawned refresh, or on to fetch_singleflight
L2Check(t) ==
    /\ pc[t] = "l2"
    /\ LET k == tkey[t]
           got == http_cache_get(l2, k, cfg.l2_fails)
           row == Get(got.row)
           st == status_from_code(row.status, 200)
       IN /\ l2' = table_after(l2, http_cache_get_table(l2, k), cfg.l2_fails)
          /\ IF if_let_ok_some(got) = "error"
             THEN /\ pc' = [pc EXCEPT ![t] = AfterReturn(t)]
                  /\ tres' = [tres EXCEPT ![t] = Err(DbError)]
                  /\ hist' = Ended(hist, {t})
                  /\ UNCHANGED << cache, tkey, origin >>
             ELSE IF if_let_ok_some(got) = "none"
             THEN /\ pc' = [pc EXCEPT ![t] = "join"]
                  /\ UNCHANGED << cache, tres, tkey, hist, origin >>
             ELSE IF l2_fresh(row, now)
             THEN /\ cache' = [cache EXCEPT ![k] =
                                  Some([status |-> st, body |-> row.body, stored_at |-> tnow[t]])]
                  /\ pc' = [pc EXCEPT ![t] = "done"]
                  /\ tres' = [tres EXCEPT ![t] = Ok(st, row.body)]
                  /\ hist' = Ended(hist, {t})
                  /\ UNCHANGED << tkey, origin >>
             ELSE IF l2_within_grace(row, now)
             THEN /\ FreeBg # {}
                  /\ pc' = [pc EXCEPT ![t] = "done", ![NextBg] = "join"]
                  /\ tkey' = [tkey EXCEPT ![NextBg] = k]
                  /\ origin' = [origin EXCEPT ![NextBg] = t]
                  /\ tres' = [tres EXCEPT ![t] = Ok(st, row.body)]
                  /\ hist' = Ended(hist, {t})
                  /\ UNCHANGED cache
             ELSE /\ pc' = [pc EXCEPT ![t] = "join"]
                  /\ UNCHANGED << cache, tres, tkey, hist, origin >>
    /\ tnow' = [tnow EXCEPT ![t] = 0]
    /\ UNCHANGED << adminVars, aggVars, keyVars, logVars, now, cfg, popularity, inflight, permits, budget, upstream, twaiters, hotKeys,
                    nextTick, sent, recent, windowSent, nflights, entryFlight, flightOf >>

\* ------------------------------------------------------------ fetch_singleflight
\* map.get_mut(&key) of line 179: a flight is registered for the key
has_flight_never(map, k) == FALSE
has_flight(map, k) == IsSome(map[k])

\* lines 177-187: under the inflight mutex, join the waiters or claim the slot
Join(t) ==
    /\ pc[t] = "join"
    /\ LET k == tkey[t]
       IN IF has_flight(inflight, k)
          THEN /\ inflight' = [inflight EXCEPT ![k] = Some(Append(Get(inflight[k]), t))]
               /\ pc' = [pc EXCEPT ![t] = "wait"]
               /\ flightOf' = [flightOf EXCEPT ![t] = entryFlight[k]]
               /\ hist' = [c \in Clients |-> IF c = t THEN [hist[c] EXCEPT !.follower = TRUE]
                                              ELSE hist[c]]
               /\ UNCHANGED << entryFlight, nflights >>
          ELSE /\ inflight' = [inflight EXCEPT ![k] = Some(<< >>)]
               /\ pc' = [pc EXCEPT ![t] = "leader"]
               /\ flightOf' = [flightOf EXCEPT ![t] = nflights + 1]
               /\ entryFlight' = [entryFlight EXCEPT ![k] = nflights + 1]
               /\ nflights' = nflights + 1
               /\ hist' = hist
    /\ UNCHANGED << adminVars, aggVars, keyVars, logVars, now, cfg, cache, popularity, l2, permits, budget, upstream, tkey, tnow, tres,
                    twaiters, hotKeys, nextTick, sent, recent, windowSent, origin >>

\* ensure_trailing_slash, on the values QNODE_BASE_URL takes in the runs
EndsWithSlash(s) == s \in {"/", "https://qn/"}
ensure_trailing_slash(s) == IF EndsWithSlash(s) THEN s ELSE s \o "/"
\* reqwest::Url::parse succeeds on an absolute URL
UrlParses(s) == s \in {"https://qn/"}
\* build_url: the error it returns, NoError when it builds the URL
build_url(base_url) ==
    IF base_url = "" THEN BadRequest
    ELSE IF ~UrlParses(base_url) THEN UrlParseError
    ELSE NoError

\* acquire_owned (line 197) and the drop of the permit: drop(permit) of lines
\* 199 and 214, or the permit going out of scope when `?` returns an error
permit_kept(p) == p
acquire_owned(p) == p - 1
drop_permit(p) == p + 1
permit_leaked_on_error(p) == p
permit_dropped_on_error(p) == drop_permit(p)

\* lines 197-211: the leader takes a permit when one is free, then
\* try_consume_budget(1).  Denied: the permit is dropped.  Granted: build_url,
\* whose error returns at once (the permit dropped with the future's locals,
\* finish_flight not called), and the request is sent.
Budget(t) ==
    /\ pc[t] = "leader"
    /\ permits > 0
    /\ LET r == try_consume_budget(budget, now, 1)
           refilled == now >= budget.reset_at
           w0 == IF refilled THEN 0 ELSE windowSent
       IN /\ budget' = r.b
          /\ IF ~r.ok
             THEN /\ permits' = drop_permit(acquire_owned(permits))
                  /\ pc' = [pc EXCEPT ![t] = "denied"]
                  /\ windowSent' = w0
                  /\ hotLog' = IF t = Hot THEN [hotLog EXCEPT !.denied = TRUE] ELSE hotLog
                  /\ UNCHANGED << tres, sent, recent, hist >>
             ELSE IF build_url(cfg.base_url) # NoError
             THEN /\ permits' = permit_dropped_on_error(acquire_owned(permits))
                  /\ pc' = [pc EXCEPT ![t] = AfterReturn(t)]
                  /\ tres' = [tres EXCEPT ![t] = IF t \in Clients
                                                 THEN Err(build_url(cfg.base_url))
                                                 ELSE NoResult]
                  /\ hist' = Ended(hist, {t})
                  /\ windowSent' = w0
                  /\ UNCHANGED << sent, recent, hotLog >>
             ELSE /\ permits' = acquire_owned(permits)
                  /\ pc' = [pc EXCEPT ![t] = "upstream"]
                  /\ sent' = [sent EXCEPT ![tkey[t]] = @ + 1]
                  /\ recent' = [recent EXCEPT ![1] = @ + 1]
                  /\ windowSent' = w0 + 1
                  /\ hist' = Caused(hist, t)
                  /\ hotLog' = IF t = Hot THEN [hotLog EXCEPT !.sent = Append(@, tkey[t])]
                                ELSE hotLog
                  /\ tres' = tres
    /\ UNCHANGED << adminVars, aggVars, keyVars, gets, now, cfg, cache, popularity, l2, inflight, upstream, tkey, tnow, twaiters,
                    hotKeys, nextTick, nflights, entryFlight, flightOf, origin >>

\* lines 211-214: the upstream server answers and the body is read, then the
\* permit is dropped; or send / text fail and `?` returns the error (the permit
\* dropped with the future's locals, finish_flight not called).  Every response
\* of the server carries a body of its own.
Response(t) ==
    /\ pc[t] = "upstream"
    /\ \/ \E code \in UpstreamCodes :
             /\ permits' = drop_permit(permits)
             /\ tres' = [tres EXCEPT ![t] = Ok(status_from_code(code, 500), upstream + 1)]
             /\ upstream' = upstream + 1
             /\ pc' = [pc EXCEPT ![t] = "store"]
             /\ hist' = hist
       \/ /\ tres' = [tres EXCEPT ![t] = IF t \in Clients THEN Err(UpstreamError)
                                         ELSE NoResult]
          /\ permits' = permit_dropped_on_error(permits)
          /\ upstream' = upstream
          /\ pc' = [pc EXCEPT ![t] = AfterReturn(t)]
          /\ hist' = Ended(hist, {t})
    /\ UNCHANGED << adminVars, aggVars, keyVars, logVars, now, cfg, cache, popularity, l2, inflight, budget, tkey, tnow, twaiters,
                    hotKeys, nextTick, sent, recent, windowSent, nflights, entryFlight, flightOf,
                    origin >>

\* lines 215-216: the L1 insert
Store(t) ==
    /\ pc[t] = "store"
    /\ cache' = [cache EXCEPT ![tkey[t]] =
                    Some([status |-> tres[t].status, body |-> tres[t].body, stored_at |-> now])]
    /\ pc' = [pc EXCEPT ![t] = IF cfg.enable_l2 THEN "put" ELSE "finish"]
    /\ UNCHANGED << adminVars, aggVars, keyVars, logVars, now, cfg, popularity, l2, inflight, permits, budget, upstream, tkey, tnow,
                    tres, twaiters, hotKeys, nextTick, histVars >>

\* lines 217-220: the L2 put, with the TTL chosen now
Put(t) ==
    /\ pc[t] = "put"
    /\ l2' = table_after(l2, http_cache_put(l2, tkey[t], tres[t].status, tres[t].body,
                                            choose_ttl(popularity, tkey[t]), now),
                         cfg.l2_fails)
    /\ pc' = [pc EXCEPT ![t] = "finish"]
    /\ UNCHANGED << adminVars, aggVars, keyVars, logVars, now, cfg, cache, popularity, inflight, permits, budget, upstream, tkey, tnow,
                    tres, twaiters, hotKeys, nextTick, histVars >>

\* the inflight map after finish_flight's remove (lines 226-229)
remove_entry(map, k) == [map EXCEPT ![k] = None]
taken_waiters_dropped(map, k) == << >>
taken_waiters(map, k) == IF IsSome(map[k]) THEN Get(map[k]) ELSE << >>

\* lines 200-207: the outcome of a flight whose budget was denied: the row of
\* the key when L2 is enabled and has one, its expiry not looked at (the `_` of
\* line 201), else TooManyRequests
denied_outcome_unexpired_only(tbl, k, l2on, now_epoch) ==
    IF l2on /\ IsSome(tbl[k]) /\ Get(tbl[k]).expires_at - now_epoch >= 0
    THEN Ok(status_from_code(Get(tbl[k]).status, 200), Get(tbl[k]).body)
    ELSE Err(TooManyRequests)
denied_outcome(tbl, k, l2on, now_epoch) ==
    IF l2on /\ IsSome(tbl[k])
    THEN Ok(status_from_code(Get(tbl[k]).status, 200), Get(tbl[k]).body)
    ELSE Err(TooManyRequests)

\* lines 200-208 and 226-229: the last L2 lookup of a leader whose budget was
\* denied, and finish_flight's removal of the entry
Denied(t) ==
    /\ pc[t] = "denied"
    /\ LET k == tkey[t]
           got == http_cache_get(l2, k, cfg.l2_fails)
       IN /\ l2' = IF cfg.enable_l2
                   THEN table_after(l2, http_cache_get_table(l2, k), cfg.l2_fails)
                   ELSE l2
          /\ tres' = [tres EXCEPT ![t] =
                        denied_outcome(l2, k, cfg.enable_l2 /\ if_let_ok_some(got) = "row", now)]
          /\ twaiters' = [twaiters EXCEPT ![t] = taken_waiters(inflight, k)]
          /\ inflight' = remove_entry(inflight, k)
          /\ entryFlight' = [entryFlight EXCEPT ![k] = 0]
    /\ pc' = [pc EXCEPT ![t] = "deliver_denied"]
    /\ UNCHANGED << adminVars, aggVars, keyVars, logVars, now, cfg, cache, popularity, permits, budget, upstream, tkey, tnow, hotKeys,
                    nextTick, sent, recent, windowSent, nflights, flightOf, hist, origin >>

\* finish_flight after a stored response, lines 221 and 226-229
Finish(t) ==
    /\ pc[t] = "finish"
    /\ LET k == tkey[t]
       IN /\ twaiters' = [twaiters EXCEPT ![t] = taken_waiters(inflight, k)]
          /\ inflight' = remove_entry(inflight, k)
          /\ entryFlight' = [entryFlight EXCEPT ![k] = 0]
    /\ pc' = [pc EXCEPT ![t] = "deliver"]
    /\ UNCHANGED << adminVars, aggVars, keyVars, logVars, now, cfg, cache, popularity, l2, permits, budget, upstream, tkey, tnow, tres,
                    hotKeys, nextTick, sent, recent, windowSent, nflights, flightOf, hist,
                    origin >>

\* what finish_flight sends to the i-th waiter (lines 230-246)
sent_to_waiter(result, i) ==
    IF result.ok THEN result
    ELSE IF i = 1 THEN result
    ELSE Err(AnyhowOf(result.err))

\* the waiters whose receiver is still awaited: tx.send to a dropped receiver
\* returns an error, which finish_flight ignores (`let _ =`, lines 232-244)
receivers_until_dropped(ws, pcs) ==
    {ws[i] : i \in {j \in 1..Len(ws) : \A h \in 1..j : pcs[ws[h]] = "wait"}}
receivers(ws, pcs) == {ws[i] : i \in {j \in 1..Len(ws) : pcs[ws[j]] = "wait"}}

\* finish_flight, lines 230-246, and the leader's return: every waiter gets its
\* result and returns from fetch_singleflight (lines 190-194)
Deliver(t) ==
    /\ pc[t] \in {"deliver", "deliver_denied"}
    /\ LET ws == twaiters[t]
           idx(w) == CHOOSE i \in 1..Len(ws) : ws[i] = w
           who == receivers(ws, pc)
       IN /\ pc' = [x \in Tasks |-> IF x = t \/ x \in who THEN AfterReturn(x) ELSE pc[x]]
          /\ tres' = [x \in Tasks |->
                        IF x \in who \cap Clients THEN sent_to_waiter(tres[t], idx(x))
                        ELSE IF x \in ({t} \cup who) \ Clients THEN NoResult
                        ELSE tres[x]]
          /\ hist' = Ended(hist, {t} \cup who)
    /\ twaiters' = [twaiters EXCEPT ![t] = << >>]
    /\ UNCHANGED << adminVars, aggVars, keyVars, logVars, now, cfg, proxyVars, tkey, tnow, hotKeys, nextTick, sent, recent, windowSent,
                    nflights, entryFlight, flightOf, origin >>

\* ------------------------------------------------------------ spawn_hotset_refresher
\* lines 283-285: the interval fires and the hot keys are listed
HotDue ==
    /\ cfg.refresher
    /\ pc[Hot] = "sleep"
    /\ now >= nextTick
    /\ nextTick < MaxHotTicks * refresh_period

HotTick ==
    /\ HotDue
    /\ nextTick' = nextTick + refresh_period
    /\ hotKeys' \in http_cache_list_hot_keys(l2, hotset_size)
    /\ hotLog' = [NoTick EXCEPT !.list = hotKeys']
    /\ pc' = [pc EXCEPT ![Hot] = "hotloop"]
    /\ UNCHANGED << adminVars, aggVars, keyVars, gets, now, cfg, proxyVars, tkey, tnow, tres, twaiters, histVars >>

\* lines 286-291: the next key of the tick: the refresher's own try_consume_budget(1),
\* which ends the loop when denied, then fetch_singleflight for the key
HotNext ==
    /\ pc[Hot] = "hotloop"
    /\ IF hotKeys = << >>
       THEN /\ pc' = [pc EXCEPT ![Hot] = "sweep"]
            /\ UNCHANGED << budget, windowSent, hotKeys, tkey, hotLog >>
       ELSE LET r == try_consume_budget(budget, now, 1)
            IN /\ budget' = r.b
               /\ windowSent' = IF now >= budget.reset_at THEN 0 ELSE windowSent
               /\ IF r.ok
                  THEN /\ pc' = [pc EXCEPT ![Hot] = "join"]
                       /\ tkey' = [tkey EXCEPT ![Hot] = Head(hotKeys)]
                       /\ hotKeys' = Tail(hotKeys)
                       /\ hotLog' = hotLog
                  ELSE /\ pc' = [pc EXCEPT ![Hot] = "sweep"]
                       /\ hotLog' = [hotLog EXCEPT !.denied = TRUE]
                       /\ UNCHANGED << hotKeys, tkey >>
    /\ UNCHANGED << adminVars, aggVars, keyVars, gets, now, cfg, cache, popularity, l2, inflight, permits, upstream, tnow, tres,
                    twaiters, nextTick, sent, recent, nflights, entryFlight, flightOf, hist,
                    origin >>

\* line 292: the sweep of the expired rows, then the loop waits for the interval
HotSweep ==
    /\ pc[Hot] = "sweep"
    /\ l2' = http_cache_cleanup_expired(l2, now)
    /\ hotKeys' = << >>
    /\ pc' = [pc EXCEPT ![Hot] = "sleep"]
    /\ UNCHANGED << adminVars, aggVars, keyVars, logVars, now, cfg, cache, popularity, inflight, permits, budget, upstream, tkey, tnow,
                    tres, twaiters, nextTick, histVars >>

\* ------------------------------------------------------------ the clock
\* The interval wakes the refresher in the tick it is due.
Tick ==
    /\ now < cfg.horizon
    /\ ~HotDue
    /\ now' = now + 1
    /\ recent' = [i \in 1..budget_window |-> IF i = 1 THEN 0 ELSE recent[i - 1]]
    /\ UNCHANGED << adminVars, aggVars, keyVars, logVars, cfg, proxyVars, taskVars, sent, windowSent, nflights, entryFlight, flightOf,
                    hist, origin >>

\* ------------------------------------------------------------ specifications
\* Clients are interchangeable: they call in the order of their numbers.
InOrder(t) == t <= cfg.calls /\ \A c \in Clients : c < t => pc[c] # "idle"

Next ==
    \/ \E t \in Clients, k \in Keys : InOrder(t) /\ GetCached(t, k)
    \/ \E t \in Tasks : L2Check(t)
    \/ \E t \in Tasks : Join(t)
    \/ \E t \in Tasks : Budget(t)
    \/ \E t \in Tasks : Denied(t)
    \/ \E t \in Tasks : Response(t)
    \/ \E t \in Tasks : Store(t)
    \/ \E t \in Tasks : Put(t)
    \/ \E t \in Tasks : Finish(t)
    \/ \E t \in Tasks : Deliver(t)
    \/ HotTick
    \/ HotNext
    \/ HotSweep
    \/ Tick

\* A run: the configuration (enable_l2, base_url, concurrency, budget_per_min),
\* whether the refresher was spawned, the table an earlier run left on disk, the
\* number of client calls that arrive and how long the clock runs.
Run(l2on, url, conc, cap, hot, table, calls, horizon) ==
    [enable_l2 |-> l2on, base_url |-> ensure_trailing_slash(url), concurrency |-> conc,
     budget_per_min |-> cap, pop_hot |-> pop_hot, pop_warm |-> pop_warm, l2_fails |-> FALSE,
     refresher |-> hot, table |-> table, calls |-> calls, horizon |-> horizon]

\* a value of QNODE_BASE_URL; the other runs leave it unset
Url == "https://qn"
EmptyTable == [k \in Keys |-> None]
\* key 1 fresh for one more tick, the other keys absent
FreshTable == [k \in Keys |-> IF k = 1 THEN PersistedRow(1) ELSE None]
\* key 1 expired within the grace window, the other keys absent
StaleTable == [k \in Keys |-> IF k = 1 THEN PersistedRow(-1) ELSE None]

Runs ==
    { Run(TRUE, Url, 2, 2, TRUE, StaleTable, NumClients - 2, MaxTime),
      Run(TRUE, Url, 2, 1, TRUE, StaleTable, NumClients - 2, MaxTime),
      Run(TRUE, Url, 2, 2, FALSE, StaleTable, NumClients - 1, MaxTime),
      Run(FALSE, Url, 1, 1, FALSE, EmptyTable, NumClients - 1, MaxTime),
      Run(TRUE, "", 1, 2, FALSE, FreshTable, NumClients - 1, MaxTime) }

\* no request is given to the fingerprint functions
NoRequest == [method |-> << >>, path |-> << >>, params |-> << >>]

Init == InitWith(Runs) /\ req = NoRequest

Spec == Init /\ [][Next]_vars

\* ------------------------------------------------------------ one caller, many calls
RECURSIVE SumGets(_)
SumGets(S) ==
    IF S = {} THEN 0
    ELSE LET k == CHOOSE x \in S : TRUE IN gets[k] + SumGets(S \ {k})

\* The caller whose call has returned makes its next call.
Again(t) ==
    /\ t \in Clients
    /\ pc[t] = "done"
    /\ SumGets(Keys) < MaxGets
    /\ pc' = [pc EXCEPT ![t] = "idle"]
    /\ tres' = [tres EXCEPT ![t] = NoResult]
    /\ flightOf' = [flightOf EXCEPT ![t] = 0]
    /\ hist' = [hist EXCEPT ![t] = NoHist]
    /\ UNCHANGED << adminVars, aggVars, keyVars, logVars, now, cfg, proxyVars, tkey, tnow, twaiters, hotKeys, nextTick,
                    sent, recent, windowSent, nflights, entryFlight, origin >>

\* The environment sets no threshold and no L2; the budget lets every call through.
GetsRun ==
    [Run(FALSE, Url, 1, MaxGets, FALSE, EmptyTable, 1, 1)
        EXCEPT !.pop_hot = default_pop_hot, !.pop_warm = default_pop_warm]

InitGets == InitWith({GetsRun}) /\ req = NoRequest

NextGets ==
    \/ \E t \in Clients, k \in Keys : InOrder(t) /\ GetCached(t, k)
    \/ \E t \in Clients : Join(t)
    \/ \E t \in Clients : Budget(t)
    \/ \E t \in Clients : Response(t)
    \/ \E t \in Clients : Store(t)
    \/ \E t \in Clients : Finish(t)
    \/ \E t \in Clients : Deliver(t)
    \/ \E t \in Clients : Again(t)
    \/ Tick

SpecGets == InitGets /\ [][NextGets]_vars

\* ------------------------------------------------------------ properties
LeaderPcs == {"leader", "denied", "upstream", "store", "put", "finish", "deliver", "deliver_denied"}
\* the tasks whose upstream request for key k is in flight
UpstreamInFlight(k) == {t \in Tasks : pc[t] = "upstream" /\ tkey[t] = k}
Waiters(k) == IF IsSome(inflight[k]) THEN {Get(inflight[k])[i] : i \in 1..Len(Get(inflight[k]))}
              ELSE {}

\* C1: at every instant, for every fingerprint, at most one upstream request is
\* in flight, whoever started it: a client get, a background refresh or the
\* hot-set refresher.
C1_AtMostOneInFlight == \A k \in Keys : Cardinality(UpstreamInFlight(k)) <= 1

\* a request in flight for a key while another task, one of them no client call,
\* waits on the same flight
C1_Witness ==
    \E k \in Keys : \E t \in UpstreamInFlight(k) : \E w \in Waiters(k) :
        t # w /\ ({t, w} \ Clients) # {}

\* the client calls that have started on key k
Callers(k) == {c \in Clients : pc[c] # "idle" /\ tkey[c] = k}
Returns(t) == pc[t] \in {"deliver", "deliver_denied"} /\ pc'[t] \notin {"deliver", "deliver_denied"}
SumCaused(S) ==
    LET RECURSIVE Sum(_)
        Sum(T) == IF T = {} THEN 0
                  ELSE LET c == CHOOSE x \in T : TRUE IN hist[c].caused + Sum(T \ {c})
    IN Sum(S)

\* C2: N >= 1 concurrent get calls on one fingerprint (all have started, none has
\* returned), with no L1 entry and no L2 row for it at the start and budget for
\* all of them: one upstream request in total, never a second one.
C2_ExactlyOneUpstream ==
    \A k \in Keys :
        ( /\ cfg.table[k] = None
          /\ cfg.budget_per_min >= cfg.calls
          /\ ~cfg.refresher
          /\ Callers(k) # {}
          /\ \A c \in Callers(k) : pc[c] # "done" )
        => SumCaused(Callers(k)) <= 1

\* C3: when a leader finishes with Ok(status, body), every follower of that
\* flight returns in that step with exactly that (status, body); no task waiting
\* on another flight is woken, and a follower is woken by its own flight only.
C3_FollowersGetLeadersOutcome ==
    [][ /\ \A t \in Tasks : Returns(t) =>
              \A x \in Tasks \ {t} : pc[x] = "wait" =>
                  IF flightOf[x] = flightOf[t]
                  THEN /\ pc'[x] = AfterReturn(x)
                       /\ (tres[t].ok /\ x \in Clients) => tres'[x] = tres[t]
                       /\ (tres[t].ok /\ t \in Clients) => tres'[t] = tres[t]
                  ELSE pc'[x] = "wait"
        /\ \A x \in Tasks : (pc[x] = "wait" /\ pc'[x] # "wait") =>
              \E t \in Tasks \ {x} : Returns(t) /\ flightOf[t] = flightOf[x]
      ]_vars

\* a client that joined a client's flight as follower has returned, with the
\* response the leader got from upstream and returned itself
C3_Witness ==
    \E x \in Clients : \E t \in Clients \ {x} :
        /\ hist[x].follower /\ ~hist[t].follower
        /\ pc[x] = "done" /\ pc[t] = "done"
        /\ flightOf[x] = flightOf[t]
        /\ tres[x].ok /\ tres[x].body > 0 /\ tres[t] = tres[x]

\* C4: when the leader's upstream call fails, the flight is completed with the
\* error: the entry of the fingerprint is removed and no follower of the flight
\* is left waiting.
C4_FailedFlightCompleted ==
    \A t \in Clients :
        (pc[t] = "done" /\ ~tres[t].ok /\ tres[t].err = UpstreamError) =>
            /\ entryFlight[tkey[t]] # flightOf[t]
            /\ \A x \in Tasks : flightOf[x] = flightOf[t] => pc[x] # "wait"

\* the requests issued in the last budget_window ticks, the present one included
SumRecent ==
    LET RECURSIVE Sum(_)
        Sum(i) == IF i = 0 THEN 0 ELSE recent[i] + Sum(i - 1)
    IN Sum(budget_window)

\* C5 as stated: in every interval of 60 seconds, wherever it starts, at most
\* capacity upstream requests are issued by all tasks together.
C5_AnySixtySeconds == SumRecent <= cfg.budget_per_min

\* C5: between one refill of the budget and the next, at most capacity upstream
\* requests are issued by all tasks together.
C5_PerBudgetWindow == windowSent <= budget.capacity_per_minute

\* a refilled budget, used up again by requests that went upstream
C5_Witness ==
    /\ budget.reset_at > budget_window
    /\ budget.remaining = 0
    /\ windowSent = budget.capacity_per_minute
    /\ windowSent > 0

\* C6: when the leader's try_consume_budget(1) is denied, no permit is kept and
\* no request is sent; the entry of the key is removed; with a row for the key in
\* an enabled L2, whatever its expiry, the leader and its followers return the
\* row's (status, body); with no row, or L2 disabled, the flight is completed
\* with TooManyRequests, HTTP 429, which the leader returns.
C6_BudgetDenied ==
    [][ \A t \in Tasks :
          /\ (pc[t] = "leader" /\ pc'[t] = "denied") =>
                permits' = permits /\ sent' = sent /\ upstream' = upstream
          /\ (pc[t] = "denied" /\ pc'[t] # "denied") =>
                LET k == tkey[t]
                    row == Get(l2[k])
                IN /\ pc'[t] = "deliver_denied"
                   /\ permits' = permits /\ sent' = sent /\ upstream' = upstream
                   /\ inflight'[k] = None
                   /\ IF cfg.enable_l2 /\ IsSome(l2[k])
                      THEN tres'[t] = Ok(row.status, row.body)
                      ELSE tres'[t] = Err(TooManyRequests) /\ HttpStatus(tres'[t]) = 429
          /\ (pc[t] = "deliver_denied" /\ pc'[t] # "deliver_denied") =>
                /\ permits' = permits /\ sent' = sent /\ upstream' = upstream
                /\ inflight'[tkey[t]] = inflight[tkey[t]]
                /\ t \in Clients => pc'[t] = "done" /\ tres'[t] = tres[t]
                /\ \A i \in 1..Len(twaiters[t]) :
                      LET x == twaiters[t][i]
                      IN /\ pc[x] = "wait" /\ pc'[x] = AfterReturn(x)
                         /\ (x \in Clients /\ (tres[t].ok \/ i = 1)) => tres'[x] = tres[t]
      ]_vars

\* a follower client has returned the row of a denied flight, a row that
\* expired longer ago than the grace window; nothing was sent for the key
C6_Witness ==
    \E x \in Clients :
        LET k == tkey[x]
        IN /\ pc[x] = "done" /\ hist[x].follower
           /\ sent[k] = 0
           /\ IsSome(l2[k]) /\ now - Get(l2[k]).expires_at > max_stale
           /\ tres[x] = Ok(Get(l2[k]).status, Get(l2[k]).body)
           /\ inflight[k] = None /\ permits = cfg.concurrency

\* the calls that reached upstream, and those that returned TooManyRequests
ReachedUpstream == {c \in Clients : hist[c].caused >= 1}
RateLimited == {c \in Clients : pc[c] = "done" /\ tres[c] = Err(TooManyRequests)}
\* n get calls on n distinct keys, none of them with a row, no refresher, all
\* returned before the first refill of the budget
DistinctCallsInOneWindow ==
    /\ build_url(cfg.base_url) = NoError /\ ~cfg.refresher
    /\ budget.reset_at = budget_window
    /\ \A c \in Clients : c <= cfg.calls => pc[c] = "done" /\ cfg.table[tkey[c]] = None
    /\ \A c, d \in Clients : (c < d /\ d <= cfg.calls) => tkey[c] # tkey[d]

\* C7: n calls on n distinct uncached keys inside one budget window that
\* started full: min(n, C) of them reach upstream and the others return
\* TooManyRequests; and a leader that asks for a token once the window has
\* elapsed (now >= reset_at) is granted it.
C7_MinOfCallsAndCapacity ==
    /\ [](DistinctCallsInOneWindow =>
            /\ Cardinality(ReachedUpstream) = Min(cfg.calls, cfg.budget_per_min)
            /\ Cardinality(RateLimited) = cfg.calls - Min(cfg.calls, cfg.budget_per_min)
            /\ ReachedUpstream \cap RateLimited = {})
    /\ [][ \A t \in Tasks :
             (pc[t] = "leader" /\ pc'[t] # "leader" /\ now >= budget.reset_at
              /\ cfg.budget_per_min >= 1 /\ build_url(cfg.base_url) = NoError)
             => pc'[t] = "upstream" /\ sent'[tkey[t]] = sent[tkey[t]] + 1 ]_vars

\* more calls than capacity, on distinct keys in one window: one of them was
\* sent upstream and one was refused
C7_Witness ==
    /\ DistinctCallsInOneWindow
    /\ cfg.calls > cfg.budget_per_min
    /\ ReachedUpstream # {} /\ RateLimited # {}

\* the steps in which task t calls try_consume_budget(1), and those in which the
\* call returns false
ConsumeStep(t) ==
    \/ pc[t] = "leader" /\ pc'[t] # "leader"
    \/ t = Hot /\ pc[Hot] = "hotloop" /\ hotKeys # << >> /\ pc'[Hot] # "hotloop"
ConsumeDenied(t) ==
    \/ pc[t] = "leader" /\ pc'[t] = "denied"
    \/ t = Hot /\ pc[Hot] = "hotloop" /\ pc'[Hot] = "sweep"

\* C8: 0 <= remaining <= capacity always; try_consume_budget(1) refills
\* (remaining := capacity, reset_at := now + window) exactly when now >= reset_at,
\* then returns true and subtracts 1 if remaining >= 1, and else returns false
\* and leaves remaining as it is; no step shows the refill without the decrement,
\* and nothing else changes the budget.
C8_BudgetState ==
    /\ [](0 <= budget.remaining /\ budget.remaining <= budget.capacity_per_minute)
    /\ [][ /\ budget'.capacity_per_minute = budget.capacity_per_minute
           /\ budget' # budget => \E t \in Tasks : ConsumeStep(t)
           /\ \A t \in Tasks : ConsumeStep(t) =>
                 LET refill == now >= budget.reset_at
                     base == IF refill THEN budget.capacity_per_minute ELSE budget.remaining
                 IN /\ budget'.reset_at = IF refill THEN now + budget_window
                                          ELSE budget.reset_at
                    /\ IF base >= 1
                       THEN ~ConsumeDenied(t) /\ budget'.remaining = base - 1
                       ELSE ConsumeDenied(t) /\ budget'.remaining = base ]_vars

\* after a refill the budget is used up again and a leader has been refused
C8_Witness ==
    /\ budget.reset_at > budget_window
    /\ budget.remaining = 0
    /\ \E t \in Tasks : pc[t] = "denied"

\* the leaders whose upstream request is outstanding
Outstanding == {t \in Tasks : pc[t] = "upstream"}
InFlight == {t \in Tasks : pc[t] \in LeaderPcs}

\* C9: at most concurrency upstream requests are outstanding; the permits
\* taken are those of the leaders between the sending of the request and the
\* reading of the body, one each; when no flight is in progress every permit is
\* available, whichever way the flights ended.
C9_Permits ==
    /\ Cardinality(Outstanding) <= cfg.concurrency
    /\ permits = cfg.concurrency - Cardinality(Outstanding)
    /\ permits >= 0
    /\ InFlight = {} => permits = cfg.concurrency

\* calls have ended on an error path (send or body read failed, URL not built)
\* and no leader is at work
C9_Witness ==
    /\ InFlight = {}
    /\ permits = cfg.concurrency
    /\ \E c \in Clients : pc[c] = "done" /\ ~tres[c].ok
                          /\ tres[c].err \in {UpstreamError, UrlParseError}

\* C10 as stated: two get calls on one key, the second started less than a TTL
\* after the first returned, cause at most one upstream request between them.
C10_SecondWithinTtl ==
    \A c \in Clients : \A d \in hist[c].after : hist[c].caused + hist[d].caused <= 1

\* C10: a get is answered from L1 at once, with no upstream request, no token
\* and no permit taken, exactly when L1 holds an entry of the key stored less
\* than ttl ago, ttl being the TTL the call selects after its own popularity
\* bump; L2 enabled or not.
C10_FreshL1Served ==
    [][ \A t \in Clients :
          (pc[t] = "idle" /\ pc'[t] # "idle") =>
              LET k == tkey'[t]
                  fresh == /\ IsSome(cache[k])
                           /\ now - Get(cache[k]).stored_at < choose_ttl(popularity', k)
              IN IF fresh
                 THEN /\ pc'[t] = "done"
                      /\ tres'[t] = Ok(Get(cache[k]).status, Get(cache[k]).body)
                      /\ sent' = sent /\ budget' = budget /\ permits' = permits
                      /\ inflight' = inflight /\ l2' = l2 /\ cache' = cache
                 ELSE pc'[t] # "done"
      ]_vars

\* a second call on a key is answered from the entry the first call stored
C10_Witness ==
    \E c \in Clients : \E d \in hist[c].after :
        /\ pc[c] = "done" /\ hist[c].caused = 0 /\ ~hist[c].follower /\ flightOf[c] = 0
        /\ hist[d].caused = 1
        /\ IsSome(cache[tkey[c]])
        /\ tres[c] = Ok(Get(cache[tkey[c]]).status, Get(cache[tkey[c]]).body)
        /\ tres[c] = tres[d]

\* C11: a get that finds no fresh L1 entry and an L2 row that has not expired
\* (expires_at >= now) returns the row's (status, body) in that step, with no
\* upstream request, no token, no permit, no flight and no refresh spawned, and
\* inserts the row into L1 with stored_at = the `now` of the call.
C11_FreshRowServed ==
    [][ \A t \in Clients :
          (pc[t] = "l2" /\ pc'[t] # "l2" /\ IsSome(l2[tkey[t]])
           /\ Get(l2[tkey[t]]).expires_at >= now) =>
              LET k == tkey[t]
                  row == Get(l2[k])
              IN /\ pc'[t] = "done"
                 /\ tres'[t] = Ok(row.status, row.body)
                 /\ cache'[k] = Some([status |-> row.status, body |-> row.body,
                                      stored_at |-> tnow[t]])
                 /\ sent' = sent /\ upstream' = upstream
                 /\ budget' = budget /\ permits' = permits
                 /\ inflight' = inflight /\ nflights' = nflights
                 /\ \A b \in Bgs : pc'[b] = pc[b]
      ]_vars

\* after a restart (nothing was ever sent or stored by this process) a call has
\* returned the persisted row, which is now in L1, budget and permits untouched
C11_Witness ==
    \E c \in Clients :
        LET k == tkey[c]
        IN /\ pc[c] = "done" /\ hist[c].caused = 0 /\ flightOf[c] = 0
           /\ IsSome(cfg.table[k]) /\ Get(cfg.table[k]).expires_at >= now
           /\ tres[c] = Ok(Get(cfg.table[k]).status, Get(cfg.table[k]).body)
           /\ IsSome(cache[k]) /\ Get(cache[k]).body = Get(cfg.table[k]).body
           /\ upstream = 0 /\ sent[k] = 0
           /\ budget.remaining = budget.capacity_per_minute /\ permits = cfg.concurrency

\* C12: a get that finds no fresh L1 entry and an L2 row expired by at most
\* max_stale returns the row's (status, body) in that step, waiting for no
\* permit, token, flight or upstream answer; a row expired by more than
\* max_stale sends the call to the miss path; and the response a call returned
\* is never changed afterwards, whatever the spawned refresh does.
C12_StaleServedAtOnce ==
    [][ \A t \in Clients :
          /\ (pc[t] = "l2" /\ pc'[t] # "l2" /\ IsSome(l2[tkey[t]])) =>
                LET row == Get(l2[tkey[t]])
                    age == now - row.expires_at
                IN /\ (0 < age /\ age <= max_stale) =>
                          /\ pc'[t] = "done"
                          /\ tres'[t] = Ok(row.status, row.body)
                          /\ permits' = permits /\ budget' = budget /\ sent' = sent
                          /\ inflight' = inflight
                   /\ age > max_stale => pc'[t] = "join" /\ tres'[t] = tres[t]
          /\ pc[t] = "done" => pc'[t] = "done" /\ tres'[t] = tres[t]
      ]_vars

\* a call returned the stale row, and the refresh it spawned has since stored a
\* newer response
C12_Witness ==
    \E c \in Clients :
        LET k == tkey[c]
        IN /\ pc[c] = "done" /\ flightOf[c] = 0
           /\ IsSome(cfg.table[k]) /\ Get(cfg.table[k]).expires_at < 0
           /\ tres[c] = Ok(Get(cfg.table[k]).status, Get(cfg.table[k]).body)
           /\ \A b \in Bgs : pc[b] = "idle"
           /\ hist[c].caused = 1
           /\ IsSome(cache[k]) /\ Get(cache[k]).body # tres[c].body

\* the calls on key k that were served the stale row the process found on disk
ServedStale(k) ==
    {c \in Clients : /\ pc[c] = "done" /\ tkey[c] = k /\ flightOf[c] = 0
                     /\ IsSome(cfg.table[k]) /\ Get(cfg.table[k]).expires_at < 0
                     /\ tres[c] = Ok(Get(cfg.table[k]).status, Get(cfg.table[k]).body)}

\* C13: the gets served from a stale row of a key before the key was refreshed
\* cause one background upstream request between them, never a second one
\* (budget for all of them, no refresher).
C13_OneBackgroundRequest ==
    \A k \in Keys :
        (~cfg.refresher /\ cfg.budget_per_min >= cfg.calls)
        => SumCaused(ServedStale(k)) <= 1

\* ------------------------------------------------------------ cancelled callers
\* The future of a caller is dropped while it is suspended: a follower at
\* rx.await (line 190), a leader at acquire_owned().await with no permit free
\* (line 197) or at send / text (lines 211, 213), where the permit it holds is
\* dropped with it.  Nothing else of fetch_singleflight runs for that caller.
Cancel(t) ==
    /\ t \in Clients
    /\ \/ pc[t] = "wait" /\ permits' = permits
       \/ pc[t] = "leader" /\ permits = 0 /\ permits' = permits
       \/ pc[t] = "upstream" /\ permits' = drop_permit(permits)
    /\ pc' = [pc EXCEPT ![t] = "cancelled"]
    /\ UNCHANGED << adminVars, aggVars, keyVars, logVars, now, cfg, cache, popularity, l2, inflight, budget, upstream,
                    tkey, tnow, tres, twaiters, hotKeys, nextTick, histVars >>

\* three callers, a budget for all of them, one permit, no L2, the clock stopped
CancelRun == Run(FALSE, Url, 1, NumClients, FALSE, EmptyTable, NumClients, 0)

InitCancel == InitWith({CancelRun}) /\ req = NoRequest

\* the steps of the callers that are not cancelled, and of the upstream server
Progress ==
    \E t \in Clients :
        Join(t) \/ Budget(t) \/ Response(t) \/ Store(t) \/ Finish(t) \/ Deliver(t)

NextCancel ==
    \/ \E t \in Clients, k \in Keys : InOrder(t) /\ GetCached(t, k)
    \/ \E t \in Clients : Join(t)
    \/ \E t \in Clients : Budget(t)
    \/ \E t \in Clients : Response(t)
    \/ \E t \in Clients : Store(t)
    \/ \E t \in Clients : Finish(t)
    \/ \E t \in Clients : Deliver(t)
    \/ \E t \in Clients : Cancel(t)

\* the runtime polls every task that can run, and the server answers
SpecCancel == InitCancel /\ [][NextCancel]_vars /\ WF_vars(Progress)

\* ------------------------------------------------------------ the database fails
\* L2 is enabled and the table holds a row that has not expired, or one within
\* the grace window, but every call of DbState returns an error.
DbFailsRuns ==
    { [Run(TRUE, Url, 1, cap, FALSE, table, NumClients - 1, MaxTime) EXCEPT !.l2_fails = TRUE] :
        cap \in {1, 2}, table \in {FreshTable, StaleTable} }

InitDbFails == InitWith(DbFailsRuns) /\ req = NoRequest

NextDbFails ==
    \/ \E t \in Clients, k \in Keys : InOrder(t) /\ GetCached(t, k)
    \/ \E t \in Clients : L2Check(t)
    \/ \E t \in Clients : Join(t)
    \/ \E t \in Clients : Budget(t)
    \/ \E t \in Clients : Denied(t)
    \/ \E t \in Clients : Response(t)
    \/ \E t \in Clients : Store(t)
    \/ \E t \in Clients : Put(t)
    \/ \E t \in Clients : Finish(t)
    \/ \E t \in Clients : Deliver(t)
    \/ Tick

SpecDbFails == InitDbFails /\ [][NextDbFails]_vars

\* ------------------------------------------------------------ qn_tokens_aggregate
\* The `addresses` parameter is a list of comma-separated items: a token
\* address (a key of the model) or 0, an item that is empty after trim().  An
\* absent parameter is the list of one empty item.
AddressLists ==
    UNION { [1..n -> 0..NumKeys] : n \in 1..NumClients }

\* line 297: list.trim().is_empty()
is_blank(list) == Len(list) = 1 /\ list[1] = 0
\* line 298: split(','), trim, filter(|s| !s.is_empty())
split_addresses(list) == SelectSeq(list, LAMBDA a : a # 0)

\* serde_json::from_str of a body succeeds (line 311): the bodies the upstream
\* server sends are JSON but for those the run garbles
from_str_is_ok(body) == body \notin cfg.garbled

\* The handler awaits join_all(tasks) (line 308): one task polls the calls in
\* turn, each running until it is suspended (at acquire_owned, at send / text,
\* at rx.await) or has returned; none is polled a second time before each was
\* polled once.
Running(c) ==
    pc[c] \in {"l2", "join", "denied", "store", "put", "finish", "deliver", "deliver_denied"}
polled_at_will(t) == TRUE
Polled(t) ==
    /\ \A c \in Clients \ {t} : ~Running(c)
    /\ pc[t] = "upstream" => \A c \in 1..cfg.calls : pc[c] # "idle"

\* lines 300-307: the call for the t-th address
AggCall(t) ==
    /\ agg = None
    /\ ~is_blank(cfg.addresses)
    /\ InOrder(t)
    /\ Polled(t)
    /\ GetCached(t, split_addresses(cfg.addresses)[t])

\* the bodies of the calls that returned Ok and decode, in the order of the list
RECURSIVE decoded(_)
decoded(results) ==
    IF results = << >> THEN << >>
    ELSE IF Head(results).ok /\ from_str_is_ok(Head(results).body)
    THEN << Head(results).body >> \o decoded(Tail(results))
    ELSE decoded(Tail(results))

\* line 297, or lines 308-316 once join_all has every result
AggRespond ==
    /\ agg = None
    /\ IF is_blank(cfg.addresses)
       THEN agg' = Some([status |-> 400, array |-> FALSE, out |-> << >>])
       ELSE /\ \A c \in 1..cfg.calls : pc[c] = "done"
            /\ agg' = Some([status |-> 200, array |-> TRUE,
                            out |-> decoded([c \in 1..cfg.calls |-> tres[c]])])
    /\ UNCHANGED << adminVars, keyVars, logVars, now, cfg, proxyVars, taskVars, histVars >>

\* one request to the endpoint: its list, the budget (0: QNODE_PER_MINUTE_BUDGET=0,
\* every flight is denied), the responses garbled
AggRun(list, cap, garbled) ==
    Run(FALSE, Url, 1, cap, FALSE, EmptyTable, Len(split_addresses(list)), 0)
        @@ [addresses |-> list, garbled |-> garbled]

AggRuns == { AggRun(list, cap, g) : list \in AddressLists, cap \in {0, 1, NumClients},
                                    g \in {{}, {1}} }

InitAgg == InitWith(AggRuns) /\ req = NoRequest

AggStep(t) ==
    /\ Polled(t)
    /\ Join(t) \/ Budget(t) \/ Denied(t) \/ Response(t) \/ Store(t) \/ Finish(t) \/ Deliver(t)

NextAgg ==
    \/ \E t \in Clients : AggCall(t)
    \/ \E t \in Clients : Polled(t) /\ Join(t)
    \/ \E t \in Clients : Polled(t) /\ Budget(t)
    \/ \E t \in Clients : Polled(t) /\ Denied(t)
    \/ \E t \in Clients : Polled(t) /\ Response(t)
    \/ \E t \in Clients : Polled(t) /\ Store(t)
    \/ \E t \in Clients : Polled(t) /\ Finish(t)
    \/ \E t \in Clients : Polled(t) /\ Deliver(t)
    \/ AggRespond

\* the handler's task is polled while it can run, and the server answers
SpecAgg ==
    InitAgg /\ [][NextAgg]_vars
    /\ WF_vars((\E t \in Clients : AggCall(t) \/ AggStep(t)) \/ AggRespond)

\* ------------------------------------------------------------ fingerprints
\* Strings are sequences of bytes; these are the bytes the requests below use.
Ch == [amp |-> 38, one |-> 49, two |-> 50, eq |-> 61, qm |-> 63, E |-> 69, G |-> 71,
       T |-> 84, d |-> 100, p |-> 112, s |-> 115, bar |-> 124]

\* str::cmp: the order of the bytes
RECURSIVE StrLess(_, _)
StrLess(a, b) ==
    IF b = << >> THEN FALSE
    ELSE IF a = << >> THEN TRUE
    ELSE IF Head(a) # Head(b) THEN Head(a) < Head(b)
    ELSE StrLess(Tail(a), Tail(b))

\* line 141: a.0.cmp(&b.0).then(a.1.cmp(&b.1)) is not Greater
PairLeq(a, b) ==
    \/ StrLess(a[1], b[1])
    \/ a[1] = b[1] /\ (a[2] = b[2] \/ StrLess(a[2], b[2]))

\* the sorted list with x put behind the elements that are not greater
RECURSIVE InsertSorted(_, _)
InsertSorted(x, sorted) ==
    IF sorted = << >> THEN << x >>
    ELSE IF PairLeq(Head(sorted), x) THEN << Head(sorted) >> \o InsertSorted(x, Tail(sorted))
    ELSE << x >> \o sorted

\* the list left as it was given
sort_by_skipped(params) == params
\* line 141: the stable sort by name, then value
RECURSIVE sort_by(_)
sort_by(params) ==
    IF params = << >> THEN << >>
    ELSE InsertSorted(params[Len(params)], sort_by(SubSeq(params, 1, Len(params) - 1)))

\* line 142: format!("{}={}", k, v)
format_kv(kv) == kv[1] \o << Ch.eq >> \o kv[2]

\* line 142: the strings joined with the separator
RECURSIVE join(_, _)
join(strs, sep) ==
    IF strs = << >> THEN << >>
    ELSE IF Len(strs) = 1 THEN strs[1]
    ELSE strs[1] \o sep \o join(Tail(strs), sep)

make_cache_key(method, path, params) ==
    LET sorted == sort_by(params)
        qs == join([i \in 1..Len(sorted) |-> format_kv(sorted[i])], << Ch.amp >>)
    IN method \o << Ch.bar >> \o path \o << Ch.qm >> \o qs

\* the first position of byte c in str, 0 when there is none
Find(str, c) ==
    IF \E i \in 1..Len(str) : str[i] = c
    THEN CHOOSE i \in 1..Len(str) : str[i] = c /\ \A j \in 1..(i - 1) : str[j] # c
    ELSE 0

\* str::splitn(2, c): the first item and, if c occurs, the rest
splitn2(str, c) ==
    LET i == Find(str, c)
    IN IF i = 0 THEN << str, None >>
       ELSE << SubSeq(str, 1, i - 1), Some(SubSeq(str, i + 1, Len(str))) >>

\* str::split(c)
RECURSIVE split(_, _)
split(str, c) ==
    LET i == Find(str, c)
    IN IF i = 0 THEN << str >>
       ELSE << SubSeq(str, 1, i - 1) >> \o split(SubSeq(str, i + 1, Len(str)), c)

unwrap_or_empty(o) == IF IsSome(o) THEN Get(o) ELSE << >>

parse_cache_key(key) ==
    LET parts == splitn2(key, Ch.bar)
    IN IF ~IsSome(parts[2]) THEN None
       ELSE LET it == splitn2(Get(parts[2]), Ch.qm)
                qs == unwrap_or_empty(it[2])
                pieces == split(qs, Ch.amp)
                params == IF qs = << >> THEN << >>
                          ELSE [i \in 1..Len(pieces) |->
                                  LET kv == splitn2(pieces[i], Ch.eq)
                                  IN << kv[1], unwrap_or_empty(kv[2]) >>]
            IN Some([path |-> it[1], params |-> params])

\* get_cached's only method
GET == << Ch.G, Ch.E, Ch.T >>
\* paths: "d", and two the token routes make from an address: "d?p=1", "d|"
Paths == { << Ch.d >>, << Ch.d, Ch.qm, Ch.p, Ch.eq, Ch.one >>, << Ch.d, Ch.bar >> }
\* parameter names of the handlers: "p" (page), "s" (sort)
Names == { << Ch.p >>, << Ch.s >> }
\* decoded values: "1", "2", "1&s=2", "2&p=1"
Values == { << Ch.one >>, << Ch.two >>,
            << Ch.one, Ch.amp, Ch.s, Ch.eq, Ch.two >>,
            << Ch.two, Ch.amp, Ch.p, Ch.eq, Ch.one >> }
ParamLists == UNION { [1..n -> Names \X Values] : n \in 0..MaxParams }
Requests == [method : {GET}, path : Paths, params : ParamLists]

\* line 96: the fingerprint of the request
MakeKey ==
    /\ fp = None
    /\ fp' = Some(make_cache_key(req.method, req.path, req.params))
    /\ UNCHANGED << adminVars, aggVars, req, parsed, logVars, now, cfg, proxyVars, taskVars, histVars >>

\* line 288: the refresher parses the fingerprint back
ParseKey ==
    /\ IsSome(fp)
    /\ parsed = None
    /\ parsed' = parse_cache_key(Get(fp))
    /\ UNCHANGED << adminVars, aggVars, req, fp, logVars, now, cfg, proxyVars, taskVars, histVars >>

InitKeys == InitWith({GetsRun}) /\ req \in Requests

NextKeys == MakeKey \/ ParseKey

SpecKeys == InitKeys /\ [][NextKeys]_vars

\* C14: with the default thresholds (50 and 10), the k-th successive get_cached
\* on a key selects ttl_hot when k >= 50, ttl_warm when 10 <= k < 50 and the
\* default of the key's class when k < 10; each get bumps the popularity once,
\* before the TTL is selected, and nothing else changes it.
C14_TtlAfterKGets ==
    [][ /\ \A k \in Keys :
            popularity'[k] # popularity[k] =>
                /\ gets'[k] = gets[k] + 1
                /\ popularity'[k] = popularity[k] + 1
        /\ \A t \in Clients, k \in Keys :
            (pc[t] = "idle" /\ pc'[t] # "idle" /\ tkey'[t] = k) =>
                /\ gets'[k] = gets[k] + 1
                /\ popularity'[k] = gets'[k]
                /\ hist'[t].pop = gets'[k]
                /\ hist'[t].ttl =
                       IF gets'[k] >= default_pop_hot THEN ttl_hot
                       ELSE IF gets'[k] >= default_pop_warm THEN ttl_warm
                       ELSE class_base_ttl(k) ]_vars
\* the 50th get on the key of the cold class has selected the hot TTL
C14_Witness ==
    \E t \in Clients :
        /\ pc[t] # "idle" /\ tkey[t] = 1 /\ gets[1] = default_pop_hot
        /\ hist[t].ttl = ttl_hot /\ class_base_ttl(1) # ttl_hot

\* C15: every bump of the in-memory popularity applies p := min(10^6, p * 0.95 + 1.0)
\* (here times 100, in whole numbers), so that the value stays within [0, 10^6]
\* and never exceeds the fixed point 20 of the decay.
C15_DecayingBump ==
    /\ [](\A k \in Keys : popularity[k] >= 0 /\ popularity[k] <= popularity_cap
                             /\ popularity[k] <= 20)
    /\ [][ \A k \in Keys :
              popularity'[k] # popularity[k] =>
                  100 * popularity'[k]
                      = Min(100 * popularity_cap, 95 * popularity[k] + 100) ]_vars

\* C16: the class of a fingerprint is a function of its path alone: two calls
\* on the same path whose TTL was selected from the same popularity, below the
\* warm threshold, were given the same TTL, whatever their query parameters.
C16_ClassFromPathAlone ==
    \A c, d \in Clients :
        ( /\ pc[c] # "idle" /\ pc[d] # "idle"
          /\ PathMarkers(tkey[c]) = PathMarkers(tkey[d])
          /\ hist[c].pop = hist[d].pop
          /\ hist[c].pop < cfg.pop_warm )
        => hist[c].ttl = hist[d].ttl

\* the lists that hold the elements of params in another order
Reorderings(params) ==
    LET n == Len(params)
    IN { [i \in 1..n |-> params[f[i]]] :
            f \in {g \in [1..n -> 1..n] : \A i, j \in 1..n : g[i] = g[j] => i = j} }

\* C17: the fingerprint of a request is the fingerprint of every permutation of
\* its parameter list (the caches, the popularity map and the inflight map are
\* keyed by the fingerprint alone).
C17_PermutationsShareKey ==
    IsSome(fp) =>
        \A q \in Reorderings(req.params) :
            make_cache_key(req.method, req.path, q) = Get(fp)
\* a fingerprint was made of two parameters given in descending order
C17_Witness ==
    /\ IsSome(fp)
    /\ Len(req.params) = 2
    /\ req.params[1] # req.params[2]
    /\ PairLeq(req.params[2], req.params[1])

\* the parameters of a list as a bag
BagOf(params) ==
    [x \in {params[i] : i \in 1..Len(params)} |->
        Cardinality({i \in 1..Len(params) : params[i] = x})]

\* C18: the fingerprint is injective: a request with the fingerprint of another
\* has its method, its path and its multiset of parameters, '|', '?', '&', '='
\* in paths and values included.
C18_Injective ==
    IsSome(fp) =>
        \A r \in Requests :
            make_cache_key(r.method, r.path, r.params) = Get(fp) =>
                /\ r.method = req.method
                /\ r.path = req.path
                /\ BagOf(r.params) = BagOf(req.params)

\* C19: parse_cache_key gives back the path and the sorted parameters of the
\* request the fingerprint was made of, and the fingerprint made of the parsed
\* result is the fingerprint parsed.
C19_RoundTrip ==
    IsSome(fp) /\ parsed # None =>
        /\ Get(parsed).path = req.path
        /\ Get(parsed).params = sort_by(req.params)
        /\ make_cache_key(GET, Get(parsed).path, Get(parsed).params) = Get(fp)

\* a holds elements of b, in the order they have in b
InOrderOf(a, b) ==
    \E f \in [1..Len(a) -> 1..Len(b)] :
        /\ \A i \in 1..Len(a) : a[i] = b[f[i]]
        /\ \A i, j \in 1..Len(a) : i < j => f[i] < f[j]

\* C20: in one tick of the refresher with a hot set of hotset_size, upstream
\* requests are issued for at most hotset_size fingerprints, one at a time in
\* the order of the rows listed by descending popularity, and once a
\* try_consume_budget(1) of the refresher was denied for a fingerprint the
\* tick refreshes nothing more (the refreshed ones are a prefix of the list).
C20_RefresherTick ==
    /\ [](/\ Len(hotLog.sent) <= hotset_size
          /\ InOrderOf(hotLog.sent, hotLog.list))
    /\ [][ (hotLog.denied /\ nextTick' = nextTick) => hotLog'.sent = hotLog.sent ]_vars

\* the leader of the flight a waiting follower joined
LeaderOf(w) ==
    {l \in Tasks : flightOf[l] = flightOf[w] /\ l # w /\ pc[l] \in LeaderPcs \cup {"deliver", "deliver_denied"}}

\* C21: a cancelled follower changes nothing for the others: the step that
\* cancels it leaves the leader, the other followers, the inflight map and the
\* caches as they are; a follower that was not cancelled leaves its wait only
\* in the step in which its leader returns, with the leader's outcome, which
\* the leader has stored; and every such follower leaves its wait in that step.
C21_FollowerCancelled ==
    [][ /\ \A t \in Clients :
            (pc[t] = "wait" /\ pc'[t] = "cancelled") =>
                /\ \A x \in Tasks \ {t} : pc'[x] = pc[x]
                /\ tres' = tres /\ inflight' = inflight /\ twaiters' = twaiters
                /\ cache' = cache /\ permits' = permits /\ budget' = budget
        /\ \A w \in Clients :
            (pc[w] = "wait" /\ pc'[w] \notin {"wait", "cancelled"}) =>
                \E l \in LeaderOf(w) :
                    /\ pc[l] = "deliver" /\ pc'[l] = AfterReturn(l)
                    /\ pc'[w] = "done"
                    /\ tres'[w] = tres[l]
                    /\ tres'[w].err = NoError
        /\ \A l \in Clients :
            (pc[l] = "store" /\ pc'[l] # "store") =>
                /\ pc'[l] = "finish"
                /\ cache'[tkey[l]] = Some([status |-> tres[l].status, body |-> tres[l].body,
                                           stored_at |-> now])
        /\ \A l \in Clients :
            (pc[l] = "deliver" /\ pc'[l] # "deliver") =>
                \A w \in Clients :
                    (pc[w] = "wait" /\ flightOf[w] = flightOf[l]) => pc'[w] = "done" ]_vars
\* a follower was cancelled, and a follower that joined the flight after it
\* has the leader's response
C21_Witness ==
    \E c, w, l \in Clients :
        /\ pc[c] = "cancelled" /\ hist[c].follower
        /\ c < w
        /\ flightOf[c] = flightOf[w] /\ flightOf[l] = flightOf[w]
        /\ hist[w].follower /\ ~hist[l].follower
        /\ pc[w] = "done" /\ pc[l] = "done"
        /\ tres[w].ok /\ tres[w] = tres[l]

\* a caller cancelled as the leader of a flight
LeaderCancelled(t) == pc[t] = "cancelled" /\ ~hist[t].follower /\ flightOf[t] # 0

\* C22: when the leader of a flight is cancelled after claiming the slot, the
\* followers of the flight still get an outcome and the entry of the
\* fingerprint is removed in the end.
C22_CancelledLeaderFlightEnds ==
    \A t \in Clients :
        LeaderCancelled(t) ~>
            /\ entryFlight[tkey[t]] # flightOf[t]
            /\ \A w \in Clients : (flightOf[w] = flightOf[t] /\ w # t) => pc[w] # "wait"

\* C23: on a cold cache the calls of one aggregate request issue at most one
\* upstream request per distinct address: the calls for a repeated address
\* join the flight of the first.
C23_OnePerDistinctId ==
    \A k \in Keys : sent[k] <= 1
\* the list [x, x, y]: the second call followed the first, two requests in all
C23_Witness ==
    /\ cfg.addresses = << 1, 1, 2 >>
    /\ IsSome(agg)
    /\ hist[2].follower /\ flightOf[2] = flightOf[1]
    /\ sent[1] = 1 /\ sent[2] = 1

\* C24: the aggregate always completes, with status 200 and the JSON array of
\* the entries that succeeded, whatever the list (empty, with duplicates) and
\* whatever the outcome of each entry.
C24_AlwaysTwoHundred ==
    /\ [](IsSome(agg) =>
            /\ Get(agg).status = 200
            /\ Get(agg).array
            /\ Get(agg).out = decoded([c \in 1..cfg.calls |-> tres[c]]))
    /\ <>IsSome(agg)

\* C25: for the list A,A,B on a cold cache, every upstream call succeeding with
\* a JSON body, the upstream requests are one for A and one for B and the
\* response is an array of two entries, one per distinct address.
C25_OneEntryPerDistinctId ==
    ( /\ cfg.addresses = << 1, 1, 2 >>
      /\ cfg.garbled = {}
      /\ IsSome(agg)
      /\ \A c \in 1..cfg.calls : tres[c].ok )
    => /\ sent[1] = 1 /\ sent[2] = 1
       /\ Get(agg).status = 200
       /\ Len(Get(agg).out) = Cardinality({1, 2})

C27_EmptyBaseUrlIsBadRequest ==
    \A t \in Clients :
        ( /\ cfg.base_url = ensure_trailing_slash("")
          /\ pc[t] = "done" /\ flightOf[t] # 0 /\ ~hist[t].follower )
        => /\ tres[t] = Err(BadRequest)
           /\ HttpStatus(tres[t]) = 400

\* C28: when a flight completes with an error, every follower, the first and
\* each further one, receives an error of the leader's kind, hence of its
\* HTTP status, with the leader's message.
C28_FollowersGetLeadersErrorKind ==
    [][ \A l \in Clients :
          (pc[l] \in {"deliver", "deliver_denied"} /\ ~tres[l].ok /\ pc'[l] # pc[l]) =>
              \A w \in Clients :
                  (pc[w] = "wait" /\ flightOf[w] = flightOf[l]) =>
                      /\ pc'[w] = "done"
                      /\ ~tres'[w].ok
                      /\ tres'[w].err.kind = tres[l].err.kind
                      /\ tres'[w].err.msg = tres[l].err.msg
                      /\ HttpStatus(tres'[w]) = HttpStatus(tres[l]) ]_vars

\* ------------------------------------------------------------ the administrative routes
\* The write routes of routes.rs with the request guard of auth.rs, the
\* limiter of rate_limit.rs, the Broadcaster of realtime.rs and the tables of
\* db.rs.  Time stamps, the ids and the before/after columns of the audit are
\* left out; the statements of db.rs succeed.

\* RateLimiter::new_per_minute: the window, in ticks
limiter_window == 3

\* An Authorization header: none, or "Bearer <token>" where the token decodes
\* (its signature and its exp are valid) or does not, and carries role and sub.
NoHeader == [bearer |-> FALSE, decodes |-> FALSE, role |-> "", sub |-> ""]
Headers ==
    {NoHeader} \cup [bearer : {TRUE}, decodes : BOOLEAN, role : {"admin", "reader"}, sub : Subjects]

\* a token that was issued to an admin and is still valid
valid_admin_token(h) == h.bearer /\ h.decodes /\ h.role \in {"admin", "Admin"}

\* AuthUser::from_request
from_request(h) ==
    IF h.bearer
    THEN IF h.decodes
         THEN [ok |-> TRUE,
               user |-> [subject |-> h.sub,
                         role |-> IF h.role \in {"admin", "Admin"} THEN "Admin" ELSE "Reader"]]
         ELSE [ok |-> FALSE, user |-> [subject |-> "", role |-> ""]]
    ELSE [ok |-> TRUE, user |-> [subject |-> "public", role |-> "Reader"]]

\* user.subject in a handler
subject_of(h) == from_request(h).user.subject

\* a handler that lets every user through
require_nothing(user) == Ok(200, 0)

\* AuthUser::require_admin
require_admin(user) == IF user.role # "Admin" THEN Err(Forbidden) ELSE Ok(200, 0)

\* RateLimiter::check_and_increment at time t: its answer and the map after it
check_and_increment(lim, key, t) ==
    LET entry == IF IsSome(lim[key]) THEN Get(lim[key]) ELSE [count |-> 0, since |-> t]
        cur == IF t - entry.since > limiter_window THEN [count |-> 0, since |-> t] ELSE entry
    IN IF cur.count >= WriteLimit
       THEN [ok |-> FALSE, limits |-> [lim EXCEPT ![key] = Some(cur)]]
       ELSE [ok |-> TRUE, limits |-> [lim EXCEPT ![key] = Some([cur EXCEPT !.count = @ + 1])]]

\* DbState::insert_audit
insert_audit(d, action, actor, target) ==
    [d EXCEPT !.audit = Append(@, [action |-> action, actor |-> actor, target |-> target])]

\* DbState::upsert_price, with the Price the route builds
db_upsert_price(d, mint, mantissa, actor) ==
    [err |-> NoError,
     db |-> insert_audit([d EXCEPT !.prices[mint] =
                              Some([usd_mantissa |-> mantissa, updated_by |-> << "admin", actor >>])],
                         "UPSERT_PRICE", actor, mint)]

\* DbState::patch_price
db_patch_price(d, mint, mantissa, actor) ==
    IF d.prices[mint] = None
    THEN [err |-> NotFound, db |-> d]
    ELSE [err |-> NoError,
          db |-> insert_audit([d EXCEPT !.prices[mint] =
                                   Some([usd_mantissa |-> mantissa, updated_by |-> << "admin", actor >>])],
                              "UPSERT_PRICE", actor, mint)]

\* DbState::delete_price
db_delete_price(d, mint, actor) ==
    IF d.prices[mint] = None
    THEN [err |-> NotFound, db |-> d]
    ELSE [err |-> NoError,
          db |-> insert_audit([d EXCEPT !.prices[mint] = None], "DELETE_PRICE", actor, mint)]

\* DbState::upsert_symbol
db_upsert_symbol(d, symbol, mint) ==
    [err |-> NoError, db |-> [d EXCEPT !.symbols[symbol] = Some(mint)]]

\* DbState::update_config
update_config(d, fee, actor) ==
    [err |-> NoError,
     db |-> insert_audit([d EXCEPT !.config.fee_bps_default = fee], "PATCH_CONFIG", actor, "config")]

\* A write route: the AuthUser guard, require_admin, the limiter, the statement
\* of db.rs, the event.  `r` is what the call on DbState gives.
AdminWrite(route, h, r, event, created) ==
    LET guard == from_request(h)
        user == guard.user
        admin == require_admin(user)
        lim == check_and_increment(limits, user.subject, now)
        answer(status) == reply' = Some([route |-> route, header |-> h, status |-> status])
    IN /\ IF ~guard.ok
          THEN answer(AppErrorStatus(Unauthorized)) /\ UNCHANGED << db, events, limits >>
          ELSE IF ~admin.ok
          THEN answer(HttpStatus(admin)) /\ UNCHANGED << db, events, limits >>
          ELSE IF ~lim.ok
          THEN /\ answer(AppErrorStatus(TooManyRequests))
               /\ limits' = lim.limits
               /\ UNCHANGED << db, events >>
          ELSE IF r.err # NoError
          THEN /\ answer(AppErrorStatus(r.err))
               /\ limits' = lim.limits
               /\ db' = r.db
               /\ UNCHANGED events
          ELSE /\ Len(events) < MaxWrites
               /\ answer(created)
               /\ limits' = lim.limits
               /\ db' = r.db
               /\ events' = Append(events, event)
       /\ UNCHANGED << aggVars, keyVars, logVars, now, cfg, proxyVars, taskVars, histVars >>

\* routes.rs lines 66-89
upsert_price(h, mint, mantissa) ==
    AdminWrite("POST /prices", h, db_upsert_price(db, mint, mantissa, subject_of(h)),
               [type |-> "price_upsert", target |-> mint], 201)

\* lines 91-98
patch_price(h, mint, mantissa) ==
    AdminWrite("PATCH /prices/<mint>", h, db_patch_price(db, mint, mantissa, subject_of(h)),
               [type |-> "price_patch", target |-> mint], 200)

\* lines 100-107
delete_price(h, mint) ==
    AdminWrite("DELETE /prices/<mint>", h, db_delete_price(db, mint, subject_of(h)),
               [type |-> "price_delete", target |-> mint], 204)

\* lines 117-124
upsert_symbol(h, symbol, mint) ==
    AdminWrite("POST /symbols", h, db_upsert_symbol(db, symbol, mint),
               [type |-> "symbol_upsert", target |-> symbol], 201)

\* lines 131-138
patch_config(h, fee) ==
    AdminWrite("PATCH /config", h, update_config(db, fee, subject_of(h)),
               [type |-> "config_patch", target |-> "config"], 200)

\* the proxy is idle in a run of admin writes
AdminRun == Run(FALSE, Url, 1, 1, FALSE, EmptyTable, 0, WriteTicks)
Mantissas == {"100", "250"}
Fees == {25}

InitAdmin == InitWith({AdminRun}) /\ req = NoRequest

NextAdmin ==
    \/ \E h \in Headers, m \in Mints, v \in Mantissas : upsert_price(h, m, v)
    \/ \E h \in Headers, m \in Mints, v \in Mantissas : patch_price(h, m, v)
    \/ \E h \in Headers, m \in Mints : delete_price(h, m)
    \/ \E h \in Headers, y \in Symbols, m \in Mints : upsert_symbol(h, y, m)
    \/ \E h \in Headers, f \in Fees : patch_config(h, f)
    \/ Tick

SpecAdmin == InitAdmin /\ [][NextAdmin]_vars

\* C29: an admin write (POST /prices, PATCH or DELETE /prices/<mint>,
\* POST /symbols, PATCH /config) that comes without a valid admin token is
\* answered 401 or 403, leaves the tables prices, symbols, config and audit as
\* they were, publishes no event and leaves the limiter's counters as they were.
C29_RejectedWriteChangesNothing ==
    [][(IsSome(reply') /\ reply' # reply /\ ~valid_admin_token(Get(reply').header))
         => /\ Get(reply').status \in {401, 403}
            /\ UNCHANGED << db, events, limits >>]_vars

\* a reader's token with the subject of an admin who has used up the quota is
\* answered 403 after that admin's writes
C29_Witness ==
    /\ IsSome(reply)
    /\ Get(reply).status = 403
    /\ Get(reply).header.decodes
    /\ limits[Get(reply).header.sub] # None
    /\ Get(limits[Get(reply).header.sub]).count = WriteLimit
    /\ db.audit # << >>
    /\ events # << >>

\* the tasks that lead a flight on key k: from the insert of the entry to
\* finish_flight's remove
LeadersOf(k) ==
    {t \in Tasks : tkey[t] = k
                    /\ pc[t] \in {"leader", "denied", "upstream", "store", "put", "finish"}}

\* C30: the inflight map holds an entry for a fingerprint exactly when a task
\* is executing as the leader of a flight on it; once every leader has
\* returned, with a response or with any error, it holds no entry.
C30_EntryIffLeader ==
    \A k \in Keys : IsSome(inflight[k]) <=> LeadersOf(k) # {}

\* ------------------------------------------------------------ fair scheduling
\* The runtime polls every task that can make a step, every upstream request
\* ends with a response or with an error, and the interval fires.  Callers
\* arrive as they like.
Work(t) ==
    \/ L2Check(t) \/ Join(t) \/ Budget(t) \/ Denied(t) \/ Response(t)
    \/ Store(t) \/ Put(t) \/ Finish(t) \/ Deliver(t)

Scheduled == (\E t \in Tasks : Work(t)) \/ HotTick \/ HotNext \/ HotSweep \/ Tick

\* callers on a proxy without L2, the budget short or not; one caller on a
\* proxy with L2 and the refresher
LiveRuns ==
    { Run(FALSE, Url, 1, cap, FALSE, EmptyTable, NumClients, 0) : cap \in {1, NumClients} }
        \cup { Run(TRUE, Url, 2, 2, TRUE, StaleTable, 1, 1) }

InitLive == InitWith(LiveRuns) /\ req = NoRequest

SpecLive == InitLive /\ [][Next]_vars /\ WF_vars(Scheduled)

\* C31: with fair scheduling and upstream requests that end, every caller that
\* joined a flight as a follower gets an outcome in the end.
C31_FollowerReturns ==
    \A t \in Clients : (pc[t] = "wait") ~> (pc[t] = "done")

\* L1 holds the result for key k
HoldsInL1(k, res) ==
    /\ IsSome(cache[k])
    /\ Get(cache[k]).status = res.status
    /\ Get(cache[k]).body = res.body

\* C32: when a follower receives Ok from its flight, L1 already holds an entry
\* of that fingerprint with the same status and body, whether the leader got a
\* response or fell back to the L2 row after a denied budget; and after a
\* response the L1 insert and the L2 put are made while the entry of the flight
\* is in the map and its waiters still wait.
C32_OkIsInL1 ==
    [][/\ \A w \in Clients :
            (pc[w] = "wait" /\ pc'[w] = "done" /\ tres'[w].ok)
                => HoldsInL1(tkey[w], tres'[w])
       /\ \A t \in Tasks :
            (pc[t] \in {"store", "put"} /\ pc'[t] # pc[t])
                => /\ IsSome(inflight[tkey[t]])
                   /\ entryFlight[tkey[t]] = flightOf[t]
                   /\ \A w \in Tasks : flightOf[w] = flightOf[t] /\ w # t
                                          => pc[w] = "wait"]_vars

\* C33: an L2 row is deleted only by the sweep of the refresher, and only when
\* expires_at + max_stale < now: a row that is still within its grace window
\* is never removed.
C33_SweepSparesGraceWindow ==
    [][\A k \in Keys :
          (IsSome(l2[k]) /\ l2'[k] = None)
              => /\ pc[Hot] = "sweep" /\ pc'[Hot] = "sleep"
                 /\ Get(l2[k]).expires_at + max_stale < now]_vars

\* the step writes the response of task t's own upstream request into L1
StoredByLeader(t, k) ==
    /\ pc[t] = "store" /\ pc'[t] # "store"
    /\ tkey[t] = k
    /\ tres[t].ok
    /\ entryFlight[k] = flightOf[t]
    /\ cache'[k] = Some([status |-> tres[t].status, body |-> tres[t].body, stored_at |-> now])

\* the step promotes the row of key k, which has not expired, into L1
PromotedFromL2(t, k) ==
    /\ pc[t] = "l2" /\ pc'[t] = "done"
    /\ tkey[t] = k
    /\ IsSome(l2[k])
    /\ Get(l2[k]).expires_at >= now
    /\ IsSome(cache'[k])
    /\ Get(cache'[k]).body = Get(l2[k]).body
    /\ tres'[t] = Ok(Get(cache'[k]).status, Get(cache'[k]).body)

\* C34: every write of L1 is a leader storing the response of its own upstream
\* request for the fingerprint, or the promotion of an L2 row that has not
\* expired; nothing else writes L1, and an entry is never removed.
C34_L1Writers ==
    [][\A k \in Keys :
          cache'[k] # cache[k]
              => /\ IsSome(cache'[k])
                 /\ \E t \in Tasks : StoredByLeader(t, k) \/ PromotedFromL2(t, k)]_vars

\* L1 holds the row an earlier run left in the table, promoted by a caller
\* that has returned it
C34_Witness ==
    \E k \in Keys, t \in Clients :
        /\ IsSome(cache[k])
        /\ Get(cache[k]).body = 0
        /\ pc[t] = "done" /\ tkey[t] = k /\ tres[t] = Ok(200, 0)

\* C35: tokens and upstream requests correspond one to one: within a budget
\* window, capacity - remaining is the number of upstream requests issued in
\* the window, whatever gets, background refreshes and refresher ticks ran.
\* (A token the refresher has just taken for a key is counted once
\* fetch_singleflight for that key has sent its request or returned.)
C35_TokensAreRequests ==
    pc[Hot] \notin {"join", "leader", "wait"}
        => budget.capacity_per_minute - budget.remaining = windowSent

\* C36: with fair scheduling and upstream requests that end, every tick of the
\* refresher finishes its loop over the hot keys and its sweep, whatever the
\* earlier gets and refreshes left behind.
C36_TickTerminates ==
    (pc[Hot] # "sleep") ~> (pc[Hot] = "sleep")

\* ------------------------------------------------------------ every request answered
\* The upstream server answers every request, the budget covers every call.
\* lines 211-214 when send and text succeed
ResponseOk(t) == Response(t) /\ pc'[t] = "store"

AllOkRuns == { Run(FALSE, Url, conc, NumClients, FALSE, EmptyTable, NumClients, 0) : conc \in {1, 2} }

InitAllOk == InitWith(AllOkRuns) /\ req = NoRequest

StepAllOk ==
    \/ \E t \in Clients : Join(t)
    \/ \E t \in Clients : Budget(t)
    \/ \E t \in Clients : ResponseOk(t)
    \/ \E t \in Clients : Store(t)
    \/ \E t \in Clients : Finish(t)
    \/ \E t \in Clients : Deliver(t)

NextAllOk ==
    \/ \E t \in Clients, k \in Keys : InOrder(t) /\ GetCached(t, k)
    \/ StepAllOk

SpecAllOk == InitAllOk /\ [][NextAllOk]_vars /\ WF_vars(StepAllOk)

\* C37: the coordinator does not deadlock on the inflight map and the gate:
\* with a gate of one permit or more, upstream requests that succeed and
\* budget for every call, every get over any mix of fingerprints returns,
\* although a leader keeps its slot while it waits for a permit.
C37_EveryGetReturns ==
    \A t \in Clients : (pc[t] \notin {"idle", "done"}) ~> (pc[t] = "done" /\ tres[t].ok)

\* the gate has one permit, held by the leader of one fingerprint; the leader
\* of another waits for it with its slot claimed, and a follower waits for that leader
C37_Witness ==
    \E t, u, w \in Clients :
        /\ cfg.concurrency = 1 /\ permits = 0
        /\ pc[u] = "upstream"
        /\ pc[t] = "leader" /\ tkey[t] # tkey[u]
        /\ pc[w] = "wait" /\ tkey[w] = tkey[t]


\* ------------------------------------------------------------ the age of a body
AgeTime == 4         \* the clock of a run that outlives the largest TTL stops here

\* runs with the durable tier on, no refresher and an empty table, over more ticks
\* than the largest TTL: with the thresholds of the runs of a few calls, where the
\* class of a fingerprint changes as it is read, and with the default thresholds,
\* where it keeps the TTL of its path
AgeRuns ==
    { [Run(TRUE, Url, 2, NumClients, FALSE, EmptyTable, NumClients, AgeTime)
          EXCEPT !.pop_hot = th[1], !.pop_warm = th[2]] :
      th \in { << pop_hot, pop_warm >>, << default_pop_hot, default_pop_warm >> } }

InitAge == InitWith(AgeRuns) /\ req = NoRequest

\* one caller that awaits each answer before it calls again; every call of it is
\* a task of its own, so that what the earlier calls returned stays on record
OneAtATime(t) == InOrder(t) /\ \A c \in Clients : c < t => pc[c] = "done"

NextAge ==
    \/ \E t \in Clients, k \in Keys : OneAtATime(t) /\ GetCached(t, k)
    \/ \E t \in Tasks : L2Check(t)
    \/ \E t \in Tasks : Join(t)
    \/ \E t \in Tasks : Budget(t)
    \/ \E t \in Tasks : Response(t)
    \/ \E t \in Tasks : Store(t)
    \/ \E t \in Tasks : Put(t)
    \/ \E t \in Tasks : Finish(t)
    \/ \E t \in Tasks : Deliver(t)
    \/ Tick

SpecAge == InitAge /\ [][NextAge]_vars

\* the largest configured class TTL
MaxTtl == Max(ttl_hot, Max(ttl_warm, ttl_cold))

\* get_cached returns at line 102: the call never leaves the L1 lookup
FastPath(t) == pc[t] = "idle" /\ pc'[t] = "done"

\* C38: a body the L1 fast path of get returns is no older than the largest class
\* TTL.  A body was fetched before any call returned it, so the fast path never
\* returns a body that a call on the same fingerprint returned, and ended with,
\* more than max(ttl_hot, ttl_warm, ttl_cold) ago.
C38_L1BodyAge ==
    [][\A t \in Clients : FastPath(t) =>
          \A c \in Clients :
              (/\ pc[c] = "done" /\ tres[c].ok
               /\ tkey[c] = tkey'[t] /\ tres[c].body = tres'[t].body)
              => now - hist[c].end <= MaxTtl]_vars


\* ------------------------------------------------------------ the durable tier disabled
\* runs with QNODE_L2_ENABLED=0, the refresher spawned on a database whose table
\* an earlier run left a row in, and a budget of one or two requests
L2OffRuns ==
    { Run(FALSE, Url, 2, cap, TRUE, StaleTable, NumClients - 1, 1) : cap \in {1, 2} }

InitL2Off == InitWith(L2OffRuns) /\ req = NoRequest

NextL2Off ==
    \/ \E t \in Clients, k \in Keys : InOrder(t) /\ GetCached(t, k)
    \/ \E t \in Tasks : Join(t)
    \/ \E t \in Tasks : Budget(t)
    \/ \E t \in Tasks : Denied(t)
    \/ \E t \in Tasks : Response(t)
    \/ \E t \in Tasks : Store(t)
    \/ \E t \in Tasks : Finish(t)
    \/ \E t \in Tasks : Deliver(t)
    \/ HotTick
    \/ HotNext
    \/ HotSweep
    \/ Tick

SpecL2Off == InitL2Off /\ [][NextL2Off]_vars

\* C39: with the durable tier disabled no step of the proxy touches an L2 row: the
\* table stays as it is (no update, insert or delete) and no tick of the refresher
\* reads hot keys out of it.
C39_L2OffLeavesTable ==
    [][~cfg.enable_l2 => /\ l2' = l2
                         /\ hotLog'.list = << >>]_vars


\* ------------------------------------------------------------ popularity
\* a step of a client's get on k: the entry of get_cached, or one of its L2 reads
ClientBumps(k) == \E t \in Clients : pc[t] = "idle" /\ pc'[t] # "idle" /\ tkey'[t] = k
ClientReadsRow(k) ==
    \E t \in Clients : pc[t] \in {"l2", "denied"} /\ pc'[t] # pc[t] /\ tkey[t] = k

\* C40: popularity reflects client reads only.  The in-memory score of a
\* fingerprint changes only when a client's get on it starts, and the popularity
\* column of a row that stays in the table changes only when a client's get reads
\* the row: no step of a background refresh or of the refresher changes either,
\* and a put over an existing row keeps its popularity.
C40_PopularityIsClientReads ==
    [][\A k \in Keys :
          /\ popularity'[k] # popularity[k] => ClientBumps(k)
          /\ (/\ IsSome(l2[k]) /\ IsSome(l2'[k])
              /\ Get(l2'[k]).popularity # Get(l2[k]).popularity) => ClientReadsRow(k)]_vars

====
